---- MODULE Spec2Model ----
(***************************************************************************)
(* Model of the aktis-parser fetch-and-cache engine: the Jira issue        *)
(* paginator, the Confluence page paginator, the index synchronizers, the  *)
(* bolt-backed cache partitions and the dispatch handlers.                 *)
(*                                                                         *)
(* A bolt bucket is a function whose DOMAIN is the set of stored keys.     *)
(* An issue key is a positive number; 0 stands for an item whose "key"     *)
(* field is missing or not a string.  The embedded project key of an item  *)
(* is a container key, or "" when fields.project.key is absent.            *)
(***************************************************************************)
EXTENDS Integers, Sequences, FiniteSets, TLC

\* ---------------------------------------------------------------- bounds
\* jira_service.go:1265 sets maxResults := 100 and :1267 maxIterations := 200;
\* the model keeps the code's use of both and scales the numbers down.
maxResults == 2
maxIterations == 3
\* issue keys a remote that honours the project filter hands out: 1..NumIssueKeys
NumIssueKeys == 3
\* issue keys per project that the remotes of the misrouting and of the
\* concurrent scenarios hand out: 1..NumLooseKeys
NumLooseKeys == 1
\* number of calls one caller makes in one behaviour
MaxRuns == 2
\* largest number of items a container of the fixed remote data set holds
MaxData == 7
\* part_005:291-292 set limit := 25 and batchSize := 5; scaled down as well.
limit == 2
batchSize == 2
\* page ids the remote can hand out: 1..NumPageIds
NumPageIds == 1
\* largest total the count endpoint reports
MaxTotal == 3
\* rounds of the page loop that the model follows
MaxRounds == 4
\* largest number of containers the remote lists
MaxListed == 3
\* number of HTTP requests served in one behaviour
MaxRequests == 3
NumBundles == 2
countMaxResults == 4

ContainerKeys == {"A", "B"}
IssueKeys == 1..NumIssueKeys

VARIABLES
    issues,      \* bucket "issues":   issue key -> [proj, by]
    projects,    \* bucket "projects": project key -> [issueCount]
    spaces,      \* bucket "confluence_spaces": space key -> [pageCount]
    pages,       \* bucket "confluence_pages":  page id -> [space]
    it,          \* issue fetch tasks: the locals of GetProjectIssues / scrapeProjectIssues
    pt,          \* page fetch tasks: the locals of scrapeSpacePages
    runs,        \* number of calls so far: issue fetches and requests (.i), page fetches
                 \* (.p), syncs, clears and UpdateAuth calls (.s)
    remote,      \* the remote service: how it answers the requests
    sync,        \* index sync tasks: the locals of ScrapeProjects / ScrapeConfluence
    auth,        \* the fields of the auth service and the saved auth data
    http,        \* the number of requests served and the last response written
    buckets,     \* the names of the buckets that exist in the database
    calls        \* the UpdateAuth and the makeRequest call the model follows step by step

vars == <<issues, projects, spaces, pages, it, pt, runs, remote, sync, auth, http, buckets,
          calls>>

\* ------------------------------------------------------------ bolt helpers
Put_Append(bucket, k, v) ==
    [x \in DOMAIN bucket \cup {IF k \in DOMAIN bucket THEN k + 1000 ELSE k} |->
        IF x \in DOMAIN bucket THEN bucket[x] ELSE v]
\* bucket.Put: last write wins under the key.
Put(bucket, k, v) == [x \in DOMAIN bucket \cup {k} |-> IF x = k THEN v ELSE bucket[x]]
DeleteKeys(bucket, ks) == [x \in DOMAIN bucket \ ks |-> bucket[x]]
EmptyBucket == [x \in {} |-> 0]
Commit_Partial(bucket, work, err) == work
\* db.Update: the writes of the transaction function are committed when it
\* returns nil and rolled back when it returns an error.
Commit(bucket, work, err) == IF err THEN bucket ELSE work
\* The puts of a transaction over a sequence of keys that may fail: 0 stands
\* for "no put fails", j for "the put of element j fails"; an element without
\* a string key (0) is skipped and has no put.
PutFailures(keys) == {0} \cup {j \in 1..Len(keys) : keys[j] # 0}
\* The elements a transaction has put when the put of element failAt fails.
Before(seq, failAt) == IF failAt = 0 THEN seq ELSE SubSeq(seq, 1, failAt - 1)

\* ------------------------------------------------------- remote responses
\* One item of a search response: its key and its embedded fields.project.key.
Item(k, p) == [key |-> k, proj |-> p]
\* Sequences over S of length 0..n
RECURSIVE SeqsUpTo(_, _)
SeqsUpTo(S, n) ==
    IF n = 0 THEN {<<>>}
    ELSE LET shorter == SeqsUpTo(S, n - 1)
         IN shorter \cup {Append(s, x) : s \in {q \in shorter : Len(q) = n - 1}, x \in S}

\* A response of makeRequest + json.Unmarshal: an error, or a page with isLast.
ErrResp == [err |-> TRUE, issues |-> <<>>, isLast |-> FALSE]
OkResp(page, last) == [err |-> FALSE, issues |-> page, isLast |-> last]
Responses(items) ==
    {ErrResp} \cup {OkResp(p, l) : p \in SeqsUpTo(items, maxResults), l \in BOOLEAN}

\* Items of a remote whose every item carries the queried project key
\* (items without a string key included).
RoutedItems(K) == {Item(k, K) : k \in 0..NumIssueKeys}
\* Items of a remote that may return items of another project or items
\* without an embedded project key.
LooseItems(K) ==
    {Item(k, p) : k \in 0..NumLooseKeys, p \in {K}} \cup
    {Item(k, p) : k \in 1..NumLooseKeys, p \in ContainerKeys \ {K}} \cup {Item(1, "")}
RoutedResponses == [K \in ContainerKeys |-> Responses(RoutedItems(K))]
LooseResponses == [K \in ContainerKeys |-> Responses(LooseItems(K))]

\* The fixed data set of the "data" remote: container K holds remote.size[K]
\* items, item i of K has its own key and carries K.
KeyOf(K, i) == IF K = "A" THEN i ELSE 100 + i
DataSlice(K, size, startAt) ==
    [i \in 1..(IF size - startAt > maxResults THEN maxResults
               ELSE IF size - startAt < 0 THEN 0 ELSE size - startAt)
        |-> Item(KeyOf(K, startAt + i), K)]
\* Items of a remote whose every item carries the queried project key and
\* whose issue keys are the project's own, as Jira forms them ("A-1", "B-1").
OwnItems(K) == {Item(KeyOf(K, i), K) : i \in 1..NumLooseKeys}
OwnResponses == [K \in ContainerKeys |-> Responses(OwnItems(K))]
\* What the remote may answer to the search request (projectKey, startAt):
\*   "any"    - any response, request by request, over items that all carry
\*              the queried key (routed) or over items that need not;
\*   "own"    - any response over items that carry the queried key and one
\*              of the project's own issue keys;
\*   "repeat" - the same response to every request;
\*   "data"   - the slice of an unchanging data set, isLast set on the last
\*              slice when the endpoint reports it.
Answers(projectKey, startAt) ==
    CASE remote.mode = "any"    ->
            IF remote.routed THEN RoutedResponses[projectKey] ELSE LooseResponses[projectKey]
      [] remote.mode = "own"    -> OwnResponses[projectKey]
      [] remote.mode = "repeat" -> {remote.resp}
      [] remote.mode = "data"   ->
            {OkResp(DataSlice(projectKey, remote.size[projectKey], startAt),
                    remote.reportsLast /\ startAt + maxResults >= remote.size[projectKey])}


\* --------------------------------------------------- DeleteProjectIssues
keysToDelete_None(bucket, projectKey) == {}
\* Keys of the issues whose embedded project key equals projectKey.
keysToDelete(bucket, projectKey) == {k \in DOMAIN bucket : bucket[k].proj = projectKey}
DeleteProjectIssues_All(bucket, projectKey) == EmptyBucket
DeleteProjectIssues(bucket, projectKey) == DeleteKeys(bucket, keysToDelete(bucket, projectKey))

\* ---------------------------------------------------- scrapeProjectIssues
\* The duplicate / wrong-project scan over one batch (jira_service.go:1326-1364).
RECURSIVE ScanBatch_SharedSeen(_, _, _)
ScanBatch_SharedSeen(batch, seen, projectKey) ==
    IF batch = <<>>
    THEN [duplicateCount |-> 0, newIssuesCount |-> 0, wrongProjectCount |-> 0, seen |-> seen]
    ELSE LET issue == Head(batch)
             all   == seen \cup UNION {it[u].seenIssueKeys : u \in DOMAIN it}
             wrong == IF issue.proj # "" /\ issue.proj # projectKey THEN 1 ELSE 0
             isDup == issue.key # 0 /\ issue.key \in all
             isNew == issue.key # 0 /\ issue.key \notin all
             rest  == ScanBatch_SharedSeen(Tail(batch),
                                           IF isNew THEN seen \cup {issue.key} ELSE seen,
                                           projectKey)
         IN [duplicateCount    |-> rest.duplicateCount + (IF isDup THEN 1 ELSE 0),
             newIssuesCount    |-> rest.newIssuesCount + (IF isNew THEN 1 ELSE 0),
             wrongProjectCount |-> rest.wrongProjectCount + wrong,
             seen              |-> rest.seen]
RECURSIVE ScanBatch(_, _, _)
ScanBatch(batch, seen, projectKey) ==
    IF batch = <<>>
    THEN [duplicateCount |-> 0, newIssuesCount |-> 0, wrongProjectCount |-> 0, seen |-> seen]
    ELSE LET issue == Head(batch)
             wrong == IF issue.proj # "" /\ issue.proj # projectKey THEN 1 ELSE 0
             isDup == issue.key # 0 /\ issue.key \in seen
             isNew == issue.key # 0 /\ issue.key \notin seen
             rest  == ScanBatch(Tail(batch), IF isNew THEN seen \cup {issue.key} ELSE seen, projectKey)
         IN [duplicateCount    |-> rest.duplicateCount + (IF isDup THEN 1 ELSE 0),
             newIssuesCount    |-> rest.newIssuesCount + (IF isNew THEN 1 ELSE 0),
             wrongProjectCount |-> rest.wrongProjectCount + wrong,
             seen              |-> rest.seen]

AllDuplicates_Never(scan) == FALSE
\* The "all duplicates" stop condition (jira_service.go:1378).
AllDuplicates(scan) == scan.duplicateCount > 0 /\ scan.newIssuesCount = 0

RECURSIVE StoreBatch_SkipWrong(_, _, _)
StoreBatch_SkipWrong(bucket, batch, projectKey) ==
    IF batch = <<>> THEN bucket
    ELSE LET issue == Head(batch)
             next  == IF issue.key = 0 \/ issue.proj \notin {"", projectKey} THEN bucket
                      ELSE Put(bucket, issue.key, [proj |-> issue.proj, by |-> projectKey])
         IN StoreBatch_SkipWrong(next, Tail(batch), projectKey)
\* The store transaction of one batch (jira_service.go:1397-1419): every item
\* of the batch that has a string key is put under its key, in batch order.
RECURSIVE StoreBatch(_, _, _)
StoreBatch(bucket, batch, projectKey) ==
    IF batch = <<>> THEN bucket
    ELSE LET issue == Head(batch)
             next  == IF issue.key = 0 THEN bucket
                      ELSE Put(bucket, issue.key, [proj |-> issue.proj, by |-> projectKey])
         IN StoreBatch(next, Tail(batch), projectKey)

BatchKeys(batch) == {batch[i].key : i \in 1..Len(batch)} \ {0}
KeySeq(batch) == [i \in 1..Len(batch) |-> batch[i].key]
\* db.Update around the store loop (jira_service.go:1397-1425): a failing put
\* makes the function return the error.
StoreBatchTx(bucket, batch, projectKey, failAt) ==
    Commit(bucket, StoreBatch(bucket, Before(batch, failAt), projectKey), failAt # 0)
\* scrapeProjectIssues returns the error of the store transaction.
StoreFailed(task) == [task EXCEPT !.requests = @ + 1, !.pc = "failed", !.lastStop = "store"]

\* The locals of one GetProjectIssues call.  requests, resultKeys,
\* storedBatches, deleted and lastStop record what the call did (the code
\* logs them); prevKey is the key of the caller's previous call if that call
\* returned without error, keysAtCall the keys stored when this call was
\* made; rewritten holds the keys a store transaction of the call has put
\* although they were seen in an earlier page.  None of them influences the
\* call.
IdleTask == [pc |-> "idle", projectKey |-> "", startAt |-> 0, iteration |-> 0,
             totalFetched |-> 0, seenIssueKeys |-> {},
             requests |-> 0, resultKeys |-> {}, storedBatches |-> 0, deleted |-> 0,
             lastStop |-> "none", prevKey |-> "", keysAtCall |-> {}, rewritten |-> {}]

LoopContinues_NoCap(iteration) == TRUE
\* The for-loop condition after iteration++ (jira_service.go:1270).
LoopContinues(iteration) == iteration + 1 < maxIterations

\* A caller invokes GetProjectIssues(projectKey) on a task that is not running.
CallGetProjectIssues(t, projectKey) ==
    /\ it[t].pc \in {"idle", "done", "failed"}
    /\ runs.i < MaxRuns
    /\ runs' = [runs EXCEPT !.i = @ + 1]
    /\ it' = [it EXCEPT ![t] = [IdleTask EXCEPT
                !.pc = "ready", !.projectKey = projectKey,
                !.prevKey = IF it[t].pc = "done" THEN it[t].projectKey ELSE "",
                !.keysAtCall = DOMAIN issues]]
    /\ UNCHANGED <<issues, projects, spaces, pages, pt, remote, sync, auth, http, buckets, calls>>

GetProjectIssues_ResetsCount(t) ==
    /\ it[t].pc = "ready"
    /\ issues' = DeleteProjectIssues(issues, it[t].projectKey)
    /\ projects' = IF it[t].projectKey \in DOMAIN projects
                   THEN [projects EXCEPT ![it[t].projectKey].issueCount = 0]
                   ELSE projects
    /\ it' = [it EXCEPT ![t].pc = "loop",
                        ![t].deleted = Cardinality(keysToDelete(issues, it[t].projectKey))]
    /\ UNCHANGED <<spaces, pages, pt, runs, remote, sync, auth, http, buckets, calls>>
\* GetProjectIssues, up to the call of scrapeProjectIssues: the pre-step
\* transaction, then the locals of scrapeProjectIssues are set up.
GetProjectIssues(t) ==
    /\ it[t].pc = "ready"
    /\ issues' = DeleteProjectIssues(issues, it[t].projectKey)
    /\ it' = [it EXCEPT ![t].pc = "loop",
                        ![t].deleted = Cardinality(keysToDelete(issues, it[t].projectKey))]
    /\ UNCHANGED <<projects, spaces, pages, pt, runs, remote, sync, auth, http, buckets, calls>>

IterationOutcome_FixedStride(task, resp) ==
    LET scan   == ScanBatch(resp.issues, task.seenIssueKeys, task.projectKey)
        req    == [task EXCEPT !.requests = @ + 1]
        got    == [req EXCEPT !.resultKeys = @ \cup BatchKeys(resp.issues),
                              !.seenIssueKeys = scan.seen]
        stored == [got EXCEPT !.totalFetched = @ + scan.newIssuesCount,
                              !.storedBatches = @ + 1]
    IN  IF resp.err
        THEN [task |-> [req EXCEPT !.pc = "failed", !.lastStop = "error"], store |-> FALSE]
        ELSE IF Len(resp.issues) = 0
        THEN [task |-> [req EXCEPT !.pc = "done", !.lastStop = "empty"], store |-> FALSE]
        ELSE IF AllDuplicates(scan)
        THEN [task |-> [got EXCEPT !.pc = "done", !.lastStop = "duplicates"], store |-> FALSE]
        ELSE IF resp.isLast
        THEN [task |-> [stored EXCEPT !.pc = "done", !.lastStop = "isLast"], store |-> TRUE]
        ELSE IF LoopContinues(task.iteration)
        THEN [task |-> [stored EXCEPT !.startAt = @ + maxResults, !.iteration = @ + 1],
              store |-> TRUE]
        ELSE [task |-> [stored EXCEPT !.startAt = @ + maxResults, !.iteration = @ + 1,
                                      !.pc = "done", !.lastStop = "maxIterations"],
              store |-> TRUE]
\* One iteration of the for loop of scrapeProjectIssues: request, scan,
\* store transaction, stop conditions.
IterationOutcome(task, resp) ==
    LET projectKey    == task.projectKey
        issuesInBatch == Len(resp.issues)
        scan          == ScanBatch(resp.issues, task.seenIssueKeys, projectKey)
        req           == [task EXCEPT !.requests = @ + 1]
        got           == [req EXCEPT !.resultKeys = @ \cup BatchKeys(resp.issues),
                                     !.seenIssueKeys = scan.seen]
        stored        == [got EXCEPT !.totalFetched = @ + scan.newIssuesCount,
                                     !.storedBatches = @ + 1,
                                     !.rewritten = @ \cup
                                        (task.seenIssueKeys \cap
                                            DOMAIN StoreBatch(EmptyBucket, resp.issues,
                                                              projectKey))]
    IN  IF resp.err
        THEN [task |-> [req EXCEPT !.pc = "failed", !.lastStop = "error"], store |-> FALSE]
        ELSE IF issuesInBatch = 0
        THEN [task |-> [req EXCEPT !.pc = "done", !.lastStop = "empty"], store |-> FALSE]
        ELSE IF AllDuplicates(scan)
        THEN [task |-> [got EXCEPT !.pc = "done", !.lastStop = "duplicates"], store |-> FALSE]
        ELSE IF resp.isLast
        THEN [task |-> [stored EXCEPT !.pc = "done", !.lastStop = "isLast"], store |-> TRUE]
        ELSE IF issuesInBatch < maxResults
        THEN [task |-> [stored EXCEPT !.pc = "done", !.lastStop = "partial"], store |-> TRUE]
        ELSE IF LoopContinues(task.iteration)
        THEN [task |-> [stored EXCEPT !.startAt = @ + issuesInBatch, !.iteration = @ + 1],
              store |-> TRUE]
        ELSE [task |-> [stored EXCEPT !.startAt = @ + issuesInBatch, !.iteration = @ + 1,
                                      !.pc = "done", !.lastStop = "maxIterations"],
              store |-> TRUE]

scrapeProjectIssues_RollsBack(t) ==
    /\ it[t].pc = "loop"
    /\ \E resp \in Answers(it[t].projectKey, it[t].startAt) :
         LET out == IterationOutcome(it[t], resp)
         IN IF resp.err
            THEN /\ it' = [it EXCEPT ![t] = out.task]
                 /\ issues' = DeleteKeys(issues, it[t].resultKeys)
            ELSE IF ~out.store
            THEN /\ it' = [it EXCEPT ![t] = out.task]
                 /\ issues' = issues
            ELSE \E failAt \in PutFailures(KeySeq(resp.issues)) :
                   /\ it' = [it EXCEPT ![t] = IF failAt = 0 THEN out.task
                                               ELSE StoreFailed(it[t])]
                   /\ issues' = StoreBatchTx(issues, resp.issues, it[t].projectKey, failAt)
    /\ UNCHANGED <<projects, spaces, pages, pt, runs, remote, sync, auth, http, buckets, calls>>
scrapeProjectIssues_AbortAll(t) ==
    /\ it[t].pc = "loop"
    /\ \E resp \in Answers(it[t].projectKey, it[t].startAt) :
         LET out == IterationOutcome(it[t], resp)
         IN IF resp.err
            THEN /\ it' = [u \in DOMAIN it |->
                             IF u = t THEN out.task
                             ELSE IF it[u].pc \in {"ready", "loop"}
                             THEN [it[u] EXCEPT !.pc = "failed", !.lastStop = "cancelled"]
                             ELSE it[u]]
                 /\ issues' = issues
            ELSE IF ~out.store
            THEN /\ it' = [it EXCEPT ![t] = out.task]
                 /\ issues' = issues
            ELSE \E failAt \in PutFailures(KeySeq(resp.issues)) :
                   /\ it' = [it EXCEPT ![t] = IF failAt = 0 THEN out.task
                                               ELSE StoreFailed(it[t])]
                   /\ issues' = StoreBatchTx(issues, resp.issues, it[t].projectKey, failAt)
    /\ UNCHANGED <<projects, spaces, pages, pt, runs, remote, sync, auth, http, buckets, calls>>
scrapeProjectIssues(t) ==
    /\ it[t].pc = "loop"
    /\ \E resp \in Answers(it[t].projectKey, it[t].startAt) :
         LET out == IterationOutcome(it[t], resp)
         IN IF ~out.store
            THEN /\ it' = [it EXCEPT ![t] = out.task]
                 /\ issues' = issues
            ELSE \E failAt \in PutFailures(KeySeq(resp.issues)) :
                   /\ it' = [it EXCEPT ![t] = IF failAt = 0 THEN out.task
                                               ELSE StoreFailed(it[t])]
                   /\ issues' = StoreBatchTx(issues, resp.issues, it[t].projectKey, failAt)
    /\ UNCHANGED <<projects, spaces, pages, pt, runs, remote, sync, auth, http, buckets, calls>>

\* ------------------------------------------------------ GetSpacePageCount
\* The sentinel GetSpacePageCount returns with an error (part_005:129, :142)
\* and the count goroutine stores (part_005:224).
UnknownCount == 0 - 1
\* A response of the count request: an error, or the reported total.
CountErr == [err |-> TRUE, total |-> 0]
CountOk(n) == [err |-> FALSE, total |-> n]
CountResponses == {CountErr} \cup {CountOk(n) : n \in 0..MaxTotal}
\* What the count endpoint may answer for spaceKey; "total" is an integer of
\* the response body, which may be negative.  The count endpoint of the "own"
\* remote is out of service.
PageCountAnswers(spaceKey) ==
    CASE remote.mode = "data" -> {remote.count[spaceKey]}
      [] remote.mode = "own"  -> {CountErr}
      [] OTHER                -> CountResponses \cup {CountOk(UnknownCount - 1)}
GetSpacePageCount(resp) == IF resp.err THEN UnknownCount ELSE resp.total

\* ------------------------------------------------------- scrapeSpacePages
\* A response of one content request: an error, or the page ids of one page
\* (0: a page whose "id" is not a string).
PageErr == [err |-> TRUE, pages |-> <<>>]
PageOk(seq) == [err |-> FALSE, pages |-> seq]
PageResponses == {PageErr} \cup {PageOk(q) : q \in SeqsUpTo(0..NumPageIds, limit)}
PageSlice(K, size, start) ==
    [i \in 1..(IF size - start > limit THEN limit
               ELSE IF size - start < 0 THEN 0 ELSE size - start)
        |-> KeyOf(K, start + i)]
\* Every space of the "own" remote holds MaxTotal pages with ids of its own
\* (page ids are unique across spaces); any content request may fail.
PageAnswers(spaceKey, start) ==
    CASE remote.mode = "data" -> {PageOk(PageSlice(spaceKey, remote.size[spaceKey], start))}
      [] remote.mode = "own"  ->
            {PageErr, PageOk(PageSlice(spaceKey, MaxTotal, start))}
      [] OTHER                -> PageResponses

\* The store transaction of one slot (part_005:384-400).
RECURSIVE StorePages(_, _, _)
StorePages(bucket, seq, spaceKey) ==
    IF seq = <<>> THEN bucket
    ELSE StorePages(IF Head(seq) = 0 THEN bucket
                    ELSE Put(bucket, Head(seq), [space |-> spaceKey]),
                    Tail(seq), spaceKey)
PageIdsOf(seq) == {seq[i] : i \in 1..Len(seq)} \ {0}
\* db.Update around the store loop of one slot (part_005:384-403).
StorePagesTx(bucket, seq, spaceKey, failAt) ==
    Commit(bucket, StorePages(bucket, Before(seq, failAt), spaceKey), failAt # 0)

\* The locals of one GetSpacePages call; rounds and resultIds record what the
\* call did, requests the content requests its goroutines have sent, processed
\* the slots the ordered loop has handled, putErr that it returned the error of
\* a store transaction, prevKey and keysAtCall are as for the issue fetch; none
\* of them influences the call.
IdlePageTask == [pc |-> "idle", spaceKey |-> "", pageCount |-> 0, totalPages |-> 0,
                 start |-> 0, actualBatchSize |-> 0, i |-> 0,
                 rounds |-> 0, resultIds |-> {}, prevKey |-> "", keysAtCall |-> {},
                 putErr |-> FALSE, requests |-> 0, processed |-> 0]

\* The number of requests of the next round (part_005:307-321).
ActualBatchSize(pageCount, totalPages) ==
    IF pageCount > 0 /\ pageCount - totalPages < batchSize * limit
    THEN (IF (pageCount - totalPages + limit - 1) \div limit = 0 THEN 1
          ELSE (pageCount - totalPages + limit - 1) \div limit)
    ELSE batchSize

\* A caller invokes GetSpacePages(spaceKey) on a task that is not running.
CallGetSpacePages(t, spaceKey) ==
    /\ pt[t].pc \in {"idle", "done", "failed"}
    /\ runs.p < MaxRuns
    /\ runs' = [runs EXCEPT !.p = @ + 1]
    /\ pt' = [pt EXCEPT ![t] = [IdlePageTask EXCEPT
                !.pc = "ready", !.spaceKey = spaceKey,
                !.prevKey = IF pt[t].pc = "done" THEN pt[t].spaceKey ELSE "",
                !.keysAtCall = DOMAIN pages]]
    /\ UNCHANGED <<issues, projects, spaces, pages, it, remote, sync, auth, http, buckets, calls>>

\* GetSpacePages up to the loop: the count request (part_005:279-294).
\* There is no delete of the stored pages of the space.
GetSpacePages(t) ==
    /\ pt[t].pc = "ready"
    /\ \E resp \in PageCountAnswers(pt[t].spaceKey) :
         pt' = [pt EXCEPT ![t].pc = "round", ![t].pageCount = GetSpacePageCount(resp)]
    /\ UNCHANGED <<issues, projects, spaces, pages, it, runs, remote, sync, auth, http, buckets, calls>>

\* The head of the for loop: leave when the known count is reached, else
\* launch the requests of one round, one goroutine each, and wait for all of
\* them (part_005:296-365).
scrapeSpacePagesRound(t) ==
    /\ pt[t].pc = "round"
    /\ IF pt[t].pageCount > 0 /\ pt[t].pageCount - pt[t].totalPages <= 0
       THEN pt' = [pt EXCEPT ![t].pc = "post"]
       ELSE /\ pt[t].rounds < MaxRounds
            /\ LET n == ActualBatchSize(pt[t].pageCount, pt[t].totalPages)
               IN pt' = [pt EXCEPT ![t].pc = "slots", ![t].actualBatchSize = n, ![t].i = 0,
                                   ![t].rounds = @ + 1, ![t].requests = @ + n]
    /\ UNCHANGED <<issues, projects, spaces, pages, it, runs, remote, sync, auth, http, buckets, calls>>

SlotOutcome_SkipsOver(task, resp) ==
    LET n      == Len(resp.pages)
        stored == [task EXCEPT !.totalPages = @ + n,
                               !.resultIds = @ \cup PageIdsOf(resp.pages)]
        ended  == [stored EXCEPT !.start = @ + task.actualBatchSize * limit]
    IN  IF resp.err THEN [task |-> [task EXCEPT !.pc = "failed"], store |-> FALSE]
        ELSE IF n = 0 THEN [task |-> [task EXCEPT !.pc = "post"], store |-> FALSE]
        ELSE IF task.i + 1 < task.actualBatchSize
        THEN [task |-> [stored EXCEPT !.i = @ + 1], store |-> TRUE]
        ELSE IF n < limit THEN [task |-> [stored EXCEPT !.pc = "post"], store |-> TRUE]
        ELSE IF task.pageCount > 0 /\ stored.totalPages >= task.pageCount
        THEN [task |-> [ended EXCEPT !.pc = "post"], store |-> TRUE]
        ELSE [task |-> [ended EXCEPT !.pc = "round"], store |-> TRUE]
\* Processing of slot i of the round (part_005:369-432): error, empty page,
\* store transaction, short page, end of the round.
SlotOutcome(task, resp) ==
    LET n      == Len(resp.pages)
        stored == [task EXCEPT !.totalPages = @ + n,
                               !.resultIds = @ \cup PageIdsOf(resp.pages)]
        ended  == [stored EXCEPT !.start = @ + task.actualBatchSize * limit]
    IN  IF resp.err THEN [task |-> [task EXCEPT !.pc = "failed"], store |-> FALSE]
        ELSE IF n = 0 THEN [task |-> [task EXCEPT !.pc = "post"], store |-> FALSE]
        ELSE IF n < limit THEN [task |-> [stored EXCEPT !.pc = "post"], store |-> TRUE]
        ELSE IF task.i + 1 < task.actualBatchSize
        THEN [task |-> [stored EXCEPT !.i = @ + 1], store |-> TRUE]
        ELSE IF task.pageCount > 0 /\ stored.totalPages >= task.pageCount
        THEN [task |-> [ended EXCEPT !.pc = "post"], store |-> TRUE]
        ELSE [task |-> [ended EXCEPT !.pc = "round"], store |-> TRUE]

scrapeSpacePagesSlot(t) ==
    /\ pt[t].pc = "slots"
    /\ \E resp \in PageAnswers(pt[t].spaceKey, pt[t].start + pt[t].i * limit) :
         LET out == SlotOutcome(pt[t], resp)
         IN IF ~out.store
            THEN /\ pt' = [pt EXCEPT ![t] = [out.task EXCEPT !.processed = @ + 1]]
                 /\ pages' = pages
            ELSE \E failAt \in PutFailures(resp.pages) :
                   /\ pt' = [pt EXCEPT ![t] = IF failAt = 0
                                               THEN [out.task EXCEPT !.processed = @ + 1]
                                               ELSE [pt[t] EXCEPT !.pc = "failed",
                                                                  !.putErr = TRUE,
                                                                  !.processed = @ + 1]]
                   /\ pages' = StorePagesTx(pages, resp.pages, pt[t].spaceKey, failAt)
    /\ UNCHANGED <<issues, projects, spaces, it, runs, remote, sync, auth, http, buckets, calls>>

UpdatePageCount_Skip(bucket, spaceKey, totalPages) == bucket
\* The post-step transaction (part_005:440-463): the record of the space, if
\* there is one, is put back with pageCount = totalPages.
UpdatePageCount(bucket, spaceKey, totalPages) ==
    IF spaceKey \in DOMAIN bucket
    THEN [bucket EXCEPT ![spaceKey].pageCount = totalPages]
    ELSE bucket

scrapeSpacePagesPost(t) ==
    /\ pt[t].pc = "post"
    /\ spaces' = UpdatePageCount(spaces, pt[t].spaceKey, pt[t].totalPages)
    /\ pt' = [pt EXCEPT ![t].pc = "done"]
    /\ UNCHANGED <<issues, projects, pages, it, runs, remote, sync, auth, http, buckets, calls>>

\* ------------------------------------------------------------- index sync
\* A record of the bucket projects as ScrapeProjects stores it: the revision
\* of the project's remote fields and the count.
ProjectRecord(rev, count) == [rev |-> rev, issueCount |-> count]
\* A record of the bucket confluence_spaces as ScrapeConfluence stores it.
SpaceRecord(rev, count) == [rev |-> rev, pageCount |-> count]

\* An entry of the list a sync fetched: its "key" field ("" when the field is
\* not a string) and the count field once the entry's goroutine has set it;
\* failed records that the count fetch failed (the code logs it).
Entry(k) == [key |-> k, counted |-> FALSE, count |-> 0, failed |-> FALSE]
ListedKeys == ContainerKeys \cup {""}
ListErr == [err |-> TRUE, results |-> <<>>]
ListOk(seq) == [err |-> FALSE, results |-> seq]
ListSlice(seq, start, n) ==
    [i \in 1..(IF Len(seq) - start > n THEN n
               ELSE IF Len(seq) - start < 0 THEN 0 ELSE Len(seq) - start) |-> seq[start + i]]
\* The answer to GET /rest/api/3/project: the whole list, or an error.
ProjectListAnswers ==
    CASE remote.mode = "data" -> {ListOk(remote.listed)}
      [] OTHER                -> {ListErr, ListOk(remote.listed)}
\* The answer to GET /wiki/rest/api/space?start=..&limit=..
SpaceListAnswers(start) ==
    CASE remote.mode = "data" -> {ListOk(ListSlice(remote.listed, start, limit))}
      [] OTHER                -> {ListErr, ListOk(ListSlice(remote.listed, start, limit))}
\* The answer to the count search of GetProjectIssueCount; total is the
\* number of issues in the response, which holds at most countMaxResults
\* (maxResults=5000 in the request) of the issues of the project.
IssueCountAnswers(projectKey) ==
    CASE remote.mode = "data" ->
            {CountOk(IF remote.size[projectKey] > countMaxResults THEN countMaxResults
                     ELSE remote.size[projectKey])}
      [] OTHER                -> CountResponses
\* GetProjectIssueCount returns 0 together with the error.
GetProjectIssueCount(resp) == IF resp.err THEN 0 ELSE resp.total

\* The locals of one sync; listErr records that a list request failed, atCall
\* the records of the container bucket when the sync was called, clearedAt
\* the phase the sync was in when a later refresh request cleared the bucket
\* under it; none of them influences the sync.
IdleSync == [pc |-> "idle", list |-> <<>>, start |-> 0, listErr |-> FALSE,
             atCall |-> EmptyBucket, clearedAt |-> ""]
AfterListError_Continue(task) == [task EXCEPT !.pc = "count", !.listErr = TRUE]
\* The error return of the list phase (jira_service.go:1111-1113, part_005:167-169).
AfterListError(task) == [task EXCEPT !.pc = "failed", !.listErr = TRUE]
\* A panic in a goroutine ends the process.
Alive == \A k \in DOMAIN sync : sync[k].pc # "panic"
Entries(seq) == [i \in 1..Len(seq) |-> Entry(seq[i])]
AllCounted(list) == \A i \in 1..Len(list) : list[i].counted

\* A caller invokes ScrapeProjects() or ScrapeConfluence().
CallSync(kind) ==
    /\ Alive
    /\ sync[kind].pc \in {"idle", "done", "failed"}
    /\ runs.s < MaxRuns
    /\ runs' = [runs EXCEPT !.s = @ + 1]
    /\ sync' = [sync EXCEPT ![kind] =
                  [IdleSync EXCEPT !.pc = "list",
                                   !.atCall = IF kind = "jira" THEN projects ELSE spaces]]
    /\ UNCHANGED <<issues, projects, spaces, pages, it, pt, remote, auth, http, buckets, calls>>

\* ScrapeProjects: the list request (jira_service.go:1110-1118).  makeRequest
\* calls Do on the client of the auth state; on the nil client of a service
\* that never received auth data this is a nil dereference in the goroutine.
ScrapeProjectsList ==
    /\ Alive /\ "jira" \in DOMAIN sync /\ sync["jira"].pc = "list"
    /\ IF ~auth.client
       THEN sync' = [sync EXCEPT !["jira"].pc = "panic"]
       ELSE \E resp \in ProjectListAnswers :
              sync' = [sync EXCEPT !["jira"] =
                         IF resp.err THEN AfterListError(@)
                         ELSE [@ EXCEPT !.pc = "count", !.list = Entries(resp.results)]]
    /\ UNCHANGED <<issues, projects, spaces, pages, it, pt, runs, remote, auth, http, buckets, calls>>

\* The count set by the goroutine of one project (jira_service.go:1145-1150).
ProjectCountField(resp) == IF resp.err THEN 0 ELSE GetProjectIssueCount(resp)

\* ScrapeProjects: the count goroutine of entry index (jira_service.go:1132-1153).
\* The type assertion on "key" is unchecked: it panics when key is not a string.
ScrapeProjectsCount(index) ==
    /\ Alive /\ "jira" \in DOMAIN sync /\ sync["jira"].pc = "count"
    /\ index \in 1..Len(sync["jira"].list)
    /\ ~sync["jira"].list[index].counted
    /\ IF sync["jira"].list[index].key = ""
       THEN sync' = [sync EXCEPT !["jira"].pc = "panic"]
       ELSE \E resp \in IssueCountAnswers(sync["jira"].list[index].key) :
              sync' = [sync EXCEPT !["jira"].list[index] =
                         [@ EXCEPT !.counted = TRUE, !.count = ProjectCountField(resp),
                                   !.failed = resp.err]]
    /\ UNCHANGED <<issues, projects, spaces, pages, it, pt, runs, remote, auth, http, buckets, calls>>

StoreProjects_Rewrite(bucket, list) ==
    [K \in {list[i].key : i \in 1..Len(list)} |->
        ProjectRecord(1, list[CHOOSE i \in 1..Len(list) :
                                 /\ list[i].key = K
                                 /\ \A j \in (i + 1)..Len(list) : list[j].key # K].count)]
RECURSIVE StoreProjects(_, _)
StoreProjects(bucket, list) ==
    IF list = <<>> THEN bucket
    ELSE StoreProjects(Put(bucket, Head(list).key, ProjectRecord(1, Head(list).count)),
                       Tail(list))

ScrapeProjectsStore_NoWait ==
    /\ Alive /\ "jira" \in DOMAIN sync /\ sync["jira"].pc = "count"
    /\ \A i \in 1..Len(sync["jira"].list) : sync["jira"].list[i].key # ""
    /\ projects' = StoreProjects(projects, sync["jira"].list)
    /\ sync' = [sync EXCEPT !["jira"].pc = "done"]
    /\ UNCHANGED <<issues, spaces, pages, it, pt, runs, remote, auth, http, buckets, calls>>
\* ScrapeProjects after wg.Wait(): the store transaction (jira_service.go:1160-1190).
ScrapeProjectsStore ==
    /\ Alive /\ "jira" \in DOMAIN sync /\ sync["jira"].pc = "count"
    /\ AllCounted(sync["jira"].list)
    /\ projects' = StoreProjects(projects, sync["jira"].list)
    /\ sync' = [sync EXCEPT !["jira"].pc = "done"]
    /\ UNCHANGED <<issues, spaces, pages, it, pt, runs, remote, auth, http, buckets, calls>>

\* ScrapeConfluence: one request of the list loop (part_005:164-190).
ScrapeConfluenceList ==
    /\ Alive /\ "confluence" \in DOMAIN sync /\ sync["confluence"].pc = "list"
    /\ \E resp \in SpaceListAnswers(sync["confluence"].start) :
         sync' = [sync EXCEPT !["confluence"] =
                    IF resp.err THEN AfterListError(@)
                    ELSE IF Len(resp.results) = 0 THEN [@ EXCEPT !.pc = "count"]
                    ELSE [@ EXCEPT !.list = @ \o Entries(resp.results),
                                   !.start = @ + limit,
                                   !.pc = IF Len(resp.results) < limit THEN "count" ELSE "list"]]
    /\ UNCHANGED <<issues, projects, spaces, pages, it, pt, runs, remote, auth, http, buckets, calls>>

\* The count set by the goroutine of one space (part_005:222-227).
SpaceCountField(resp) == IF resp.err THEN UnknownCount ELSE GetSpacePageCount(resp)

\* ScrapeConfluence: the count goroutine of entry index (part_005:206-231); it
\* returns at once when key is not a string.
ScrapeConfluenceCount(index) ==
    /\ Alive /\ "confluence" \in DOMAIN sync /\ sync["confluence"].pc = "count"
    /\ index \in 1..Len(sync["confluence"].list)
    /\ ~sync["confluence"].list[index].counted
    /\ IF sync["confluence"].list[index].key = ""
       THEN sync' = [sync EXCEPT !["confluence"].list[index].counted = TRUE]
       ELSE \E resp \in PageCountAnswers(sync["confluence"].list[index].key) :
              sync' = [sync EXCEPT !["confluence"].list[index] =
                         [@ EXCEPT !.counted = TRUE, !.count = SpaceCountField(resp),
                                   !.failed = resp.err]]
    /\ UNCHANGED <<issues, projects, spaces, pages, it, pt, runs, remote, auth, http, buckets, calls>>

RECURSIVE StoreSpaces_SkipFailed(_, _)
StoreSpaces_SkipFailed(bucket, list) ==
    IF list = <<>> THEN bucket
    ELSE StoreSpaces_SkipFailed(IF Head(list).key = "" \/ Head(list).failed THEN bucket
                                ELSE Put(bucket, Head(list).key,
                                         SpaceRecord(1, Head(list).count)),
                                Tail(list))
RECURSIVE StoreSpaces(_, _)
StoreSpaces(bucket, list) ==
    IF list = <<>> THEN bucket
    ELSE StoreSpaces(IF Head(list).key = "" THEN bucket
                     ELSE Put(bucket, Head(list).key, SpaceRecord(1, Head(list).count)),
                     Tail(list))

\* ScrapeConfluence after wg.Wait(): the store transaction (part_005:237-259).
ScrapeConfluenceStore ==
    /\ Alive /\ "confluence" \in DOMAIN sync /\ sync["confluence"].pc = "count"
    /\ AllCounted(sync["confluence"].list)
    /\ spaces' = StoreSpaces(spaces, sync["confluence"].list)
    /\ sync' = [sync EXCEPT !["confluence"].pc = "done"]
    /\ UNCHANGED <<issues, projects, pages, it, pt, runs, remote, auth, http, buckets, calls>>

\* ------------------------------------------------------- authentication
\* The values the auth data of bundle i carries.
BaseURLs == <<"https://site", "https://other", "https://third", "https://fourth">>
UserAgents == <<"agent-1", "agent-2", "agent-3", "agent-4">>
Cookies == <<"cookie-1", "cookie-2", "cookie-3", "cookie-4">>
CloudIds == <<"cloud-1", "cloud-2", "cloud-3", "cloud-4">>
AtlTokens == <<"token-1", "token-2", "token-3", "token-4">>
NoCookies == ""
\* authData.Tokens of bundle i: a map that may lack "cloudId" or "atlToken".
TokenNames == {"cloudId", "atlToken"}
Tokens(i, names) == [k \in names |-> IF k = "cloudId" THEN CloudIds[i] ELSE AtlTokens[i]]
\* AuthData as decoded from a request body.
AuthData(i, baseURL, names) ==
    [ok |-> TRUE, baseURL |-> baseURL, userAgent |-> UserAgents[i], cookies |-> Cookies[i],
     tokens |-> Tokens(i, names)]
NoAuthData == [ok |-> FALSE, baseURL |-> "", userAgent |-> "", cookies |-> NoCookies,
               tokens |-> Tokens(1, {})]
\* The bodies the handlers receive: ok is FALSE for a body that does not
\* decode.
AuthBodies == {NoAuthData} \cup {AuthData(1, b, {}) : b \in {"", BaseURLs[1]}}
\* The auth data an UpdateAuth call may be given.
AuthDatas ==
    UNION {{AuthData(i, b, names) : b \in {"", BaseURLs[i]}, names \in SUBSET TokenNames} :
           i \in 1..NumBundles}
\* The fields of the service after construction with no stored auth data;
\* jar is the content of the cookie jar of client, saved the record "current"
\* of bucket "auth".
NotAuthenticated ==
    [client |-> FALSE, jar |-> NoCookies, baseURL |-> "", userAgent |-> "",
     cloudId |-> "", atlToken |-> "", saved |-> <<>>]

IsAuthenticated_ClientOnly(a) == a.client
IsAuthenticated_NeedsTokens(a) == a.client /\ a.baseURL # "" /\ a.cloudId # ""
\* IsAuthenticated: a client is configured and the base URL is not empty.
IsAuthenticated(a) == a.client /\ a.baseURL # ""

\* The two implementations of UpdateAuth.
UpdateAuthImpls == {"AtlassianAuthService", "JiraScraper"}
\* The assignments of UpdateAuth, in the order of the code.
UpdateSteps == <<"client", "cookies", "baseURL", "userAgent", "cloudId", "atlToken", "store">>
\* One assignment of UpdateAuth; dbOk tells whether the transaction that
\* saves the auth data in bucket "auth" succeeds.
ApplyStep(a, authData, dbOk, step) ==
    CASE step = "client" -> [a EXCEPT !.client = TRUE, !.jar = NoCookies]
      [] step = "cookies" -> [a EXCEPT !.jar = authData.cookies]
      [] step = "baseURL" -> [a EXCEPT !.baseURL = authData.baseURL]
      [] step = "userAgent" -> [a EXCEPT !.userAgent = authData.userAgent]
      [] step = "cloudId" -> IF "cloudId" \in DOMAIN authData.tokens
                             THEN [a EXCEPT !.cloudId = authData.tokens["cloudId"]] ELSE a
      [] step = "atlToken" -> IF "atlToken" \in DOMAIN authData.tokens
                              THEN [a EXCEPT !.atlToken = authData.tokens["atlToken"]] ELSE a
      [] step = "store" -> IF dbOk THEN [a EXCEPT !.saved = <<authData>>] ELSE a
RECURSIVE ApplySteps(_, _, _, _)
ApplySteps(a, authData, dbOk, steps) ==
    IF steps = <<>> THEN a
    ELSE ApplySteps(ApplyStep(a, authData, dbOk, Head(steps)), authData, dbOk, Tail(steps))
\* UpdateAuth run from its first statement to its last.
UpdateAuth(a, authData, dbOk) == ApplySteps(a, authData, dbOk, UpdateSteps)
\* The error UpdateAuth returns: AtlassianAuthService returns the error of
\* the transaction, JiraScraper logs it and returns nil.
UpdateAuthError(impl, dbOk) == impl = "AtlassianAuthService" /\ ~dbOk
\* The service after an earlier session's UpdateAuth.
Authenticated == UpdateAuth(NotAuthenticated, AuthData(1, BaseURLs[1], {}), TRUE)

\* An UpdateAuth call followed statement by statement: step is the index in
\* UpdateSteps of the next assignment, 0 when no call is running; n counts
\* the calls that returned, err is what the last one returned.
IdleUpdate ==
    [step |-> 0, impl |-> "", authData |-> NoAuthData, dbOk |-> TRUE, n |-> 0, err |-> FALSE]
CallUpdateAuth(impl, authData, dbOk) ==
    /\ calls.update.step = 0 /\ runs.s < MaxRuns
    /\ runs' = [runs EXCEPT !.s = @ + 1]
    /\ calls' = [calls EXCEPT !.update =
                   [@ EXCEPT !.step = 1, !.impl = impl, !.authData = authData, !.dbOk = dbOk]]
    /\ UNCHANGED <<issues, projects, spaces, pages, it, pt, remote, sync, auth, http, buckets>>
UpdateAuthStep ==
    /\ calls.update.step > 0
    /\ LET u == calls.update
           last == u.step = Len(UpdateSteps)
       IN /\ auth' = ApplyStep(auth, u.authData, u.dbOk, UpdateSteps[u.step])
          /\ calls' = [calls EXCEPT !.update =
                         IF last THEN [u EXCEPT !.step = 0, !.n = @ + 1,
                                                !.err = UpdateAuthError(u.impl, u.dbOk)]
                         ELSE [u EXCEPT !.step = @ + 1]]
    /\ UNCHANGED <<issues, projects, spaces, pages, it, pt, runs, remote, sync, http, buckets>>

\* ------------------------------------------------------------ makeRequest
\* What the remote and the network do with one request: client.Do fails, or
\* a response with a status and a body arrives, whose body may fail to be
\* read in full.
Statuses == {200, 201, 401, 403, 404, 500}
Bodies == {"", "payload"}
Outcomes ==
    {[doErr |-> TRUE, status |-> 0, body |-> "", readErr |-> FALSE]} \cup
    {[doErr |-> FALSE, status |-> st, body |-> b, readErr |-> r] :
        st \in Statuses, b \in Bodies, r \in BOOLEAN}
\* What makeRequest returns: the body or nil, and the error or nil.
Returned(body, err) == [hasBody |-> err = "", body |-> body, err |-> err, status |-> 0]
Classify_403AsRemote(o) ==
    IF o.doErr THEN Returned("", "transport")
    ELSE IF o.status # 200
         THEN IF o.status = 401
              THEN [Returned("", "auth expired") EXCEPT !.status = o.status]
              ELSE [hasBody |-> FALSE, body |-> o.body, err |-> "HTTP", status |-> o.status]
    ELSE IF o.readErr THEN Returned("", "transport")
    ELSE Returned(o.body, "")
\* The result of makeRequest for one outcome.
Classify(o) ==
    IF o.doErr THEN Returned("", "transport")
    ELSE IF o.status # 200
         THEN IF o.status = 401 \/ o.status = 403
              THEN [Returned("", "auth expired") EXCEPT !.status = o.status]
              ELSE [hasBody |-> FALSE, body |-> o.body, err |-> "HTTP", status |-> o.status]
    ELSE IF o.readErr THEN Returned("", "transport")
    ELSE Returned(o.body, "")
\* A makeRequest call followed statement by statement: it reads the base
\* URL, then the user agent, then the client, and sends the request.
IdleRequest ==
    [pc |-> "idle", baseURL |-> "", userAgent |-> "", jar |-> NoCookies, sent |-> 0,
     outcome |-> [doErr |-> TRUE, status |-> 0, body |-> "", readErr |-> FALSE],
     result |-> Returned("", "")]
\* A fetch task calls makeRequest; the handlers start a fetch task only when
\* IsAuthenticated() holds.
CallMakeRequest ==
    /\ calls.request.pc \in {"idle", "returned"} /\ runs.i < MaxRuns
    /\ IsAuthenticated(auth)
    /\ runs' = [runs EXCEPT !.i = @ + 1]
    /\ calls' = [calls EXCEPT !.request = [IdleRequest EXCEPT !.pc = "baseURL"]]
    /\ UNCHANGED <<issues, projects, spaces, pages, it, pt, remote, sync, auth, http, buckets>>
makeRequestBaseURL ==
    /\ calls.request.pc = "baseURL"
    /\ calls' = [calls EXCEPT !.request.pc = "userAgent", !.request.baseURL = auth.baseURL]
    /\ UNCHANGED <<issues, projects, spaces, pages, it, pt, runs, remote, sync, auth, http,
                   buckets>>
makeRequestUserAgent ==
    /\ calls.request.pc = "userAgent"
    /\ calls' = [calls EXCEPT !.request.pc = "do", !.request.userAgent = auth.userAgent]
    /\ UNCHANGED <<issues, projects, spaces, pages, it, pt, runs, remote, sync, auth, http,
                   buckets>>
makeRequestDo(outcome) ==
    /\ calls.request.pc = "do"
    /\ calls' = [calls EXCEPT !.request =
                   [@ EXCEPT !.pc = "returned", !.jar = auth.jar, !.sent = @ + 1,
                             !.outcome = outcome, !.result = Classify(outcome)]]
    /\ UNCHANGED <<issues, projects, spaces, pages, it, pt, runs, remote, sync, auth, http,
                   buckets>>
NoCalls == [update |-> IdleUpdate, request |-> IdleRequest]

\* ------------------------------------------------------------- handlers
Methods == {"POST", "GET"}
NoRequest == [n |-> 0, endpoint |-> "", method |-> "", code |-> 0, status |-> ""]
Response(endpoint, method, code, status) ==
    [n |-> http.n + 1, endpoint |-> endpoint, method |-> method, code |-> code,
     status |-> status]
\* The decoded body of a get-issues / get-pages request: a list of keys, one
\* per task the model follows; ok is FALSE for a body that does not decode.
KeyBodies ==
    {[ok |-> FALSE, keys |-> <<>>]} \cup
    {[ok |-> TRUE, keys |-> q] : q \in SeqsUpTo(ContainerKeys, Cardinality(DOMAIN it))}
PageKeyBodies ==
    {[ok |-> FALSE, keys |-> <<>>]} \cup
    {[ok |-> TRUE, keys |-> q] : q \in SeqsUpTo(ContainerKeys, Cardinality(DOMAIN pt))}

AuthUpdateHandler(method, body, impl, dbOk) ==
    /\ Alive /\ http.n < MaxRequests
    /\ IF method # "POST"
       THEN /\ http' = Response("auth", method, 405, "")
            /\ auth' = auth
       ELSE IF ~body.ok
       THEN /\ http' = Response("auth", method, 400, "")
            /\ auth' = auth
       ELSE /\ auth' = UpdateAuth(auth, body, dbOk)
            /\ http' = IF UpdateAuthError(impl, dbOk) THEN Response("auth", method, 500, "")
                       ELSE Response("auth", method, 200, "authenticated")
    /\ UNCHANGED <<issues, projects, spaces, pages, it, pt, runs, remote, sync, buckets, calls>>

\* The buckets NewJiraScraper, NewConfluenceScraper and
\* NewAtlassianAuthService create.
BucketNames == {"projects", "issues", "confluence_spaces", "confluence_pages", "auth"}
\* The database as a transaction sees it: the buckets that exist and the
\* records of the four data buckets.
Db == [exists |-> buckets,
       recs |-> [projects |-> projects, issues |-> issues,
                 confluence_spaces |-> spaces, confluence_pages |-> pages]]
\* tx.DeleteBucket removes the bucket with its records.
DeleteBucket(db, name) ==
    [exists |-> db.exists \ {name}, recs |-> [db.recs EXCEPT ![name] = EmptyBucket]]
CreateBucket_Never(db, name) == db
\* tx.CreateBucket / tx.CreateBucketIfNotExists.
CreateBucket(db, name) == [db EXCEPT !.exists = @ \cup {name}]
\* Delete and recreate the buckets of names, in order, up to but not including
\* operation failAt (operation 2i-1 deletes names[i], 2i creates it); 0: all.
RECURSIVE Recreate(_, _, _)
Recreate(db, names, failAt) ==
    IF names = <<>> \/ failAt = 1 THEN db
    ELSE IF failAt = 2 THEN DeleteBucket(db, Head(names))
    ELSE Recreate(CreateBucket(DeleteBucket(db, Head(names)), Head(names)), Tail(names),
                  IF failAt = 0 THEN 0 ELSE failAt - 2)
\* The operations of such a transaction that may fail; 0: none fails.
ClearFailures(names) == 0..(Len(names) + Len(names))
\* The transaction of a clear: the outcome is the database and the error.
ClearTx(db, names, failAt) ==
    [db |-> Commit(db, Recreate(db, names, failAt), failAt # 0), err |-> failAt # 0]
\* ClearProjectsCache; DeleteBucket of a bucket that does not exist is an
\* error here.
ClearProjectsCache(db, failAt) ==
    IF "projects" \notin db.exists THEN [db |-> db, err |-> TRUE]
    ELSE ClearTx(db, <<"projects">>, failAt)
ClearSpacesCache(db, failAt) == ClearTx(db, <<"confluence_spaces">>, failAt)
ClearAllNames_JiraOnly == <<"projects", "issues">>
\* The buckets JiraScraper.ClearAllData deletes and recreates.
ClearAllNames == <<"projects", "issues", "confluence_spaces", "confluence_pages">>
ClearAllData(db, failAt) == ClearTx(db, ClearAllNames, failAt)
\* ConfluenceScraperService.ClearAllData.
ConfluenceClearAllNames == <<"confluence_spaces", "confluence_pages">>
ConfluenceClearAllData(db, failAt) == ClearTx(db, ConfluenceClearAllNames, failAt)
\* The state after a transaction that left the database as db.
Written(db) ==
    /\ buckets' = db.exists
    /\ projects' = db.recs.projects
    /\ issues' = db.recs.issues
    /\ spaces' = db.recs.confluence_spaces
    /\ pages' = db.recs.confluence_pages

\* The handlers clear the bucket and start the sync in a goroutine of its
\* own, whether or not the sync of an earlier request is still running.  Of
\* two syncs of one kind the model follows the earlier one; the later one is
\* then still waiting for the answer to its list request.
RefreshProjectsCacheHandler(method, failAt) ==
    /\ Alive /\ http.n < MaxRequests /\ "jira" \in DOMAIN sync
    /\ LET cleared == ClearProjectsCache(Db, failAt)
       IN IF method # "POST"
          THEN /\ http' = Response("projects/refresh-cache", method, 405, "")
               /\ UNCHANGED <<issues, projects, spaces, pages, buckets, sync, calls>>
          ELSE IF ~IsAuthenticated(auth)
          THEN /\ http' = Response("projects/refresh-cache", method, 401, "error")
               /\ UNCHANGED <<issues, projects, spaces, pages, buckets, sync, calls>>
          ELSE IF cleared.err
          THEN /\ http' = Response("projects/refresh-cache", method, 500, "error")
               /\ Written(cleared.db)
               /\ sync' = sync
          ELSE /\ Written(cleared.db)
               /\ sync' = IF sync["jira"].pc \in {"idle", "done", "failed"}
                          THEN [sync EXCEPT !["jira"] =
                                  [IdleSync EXCEPT !.pc = "list",
                                                   !.atCall = cleared.db.recs.projects]]
                          ELSE [sync EXCEPT !["jira"].clearedAt = sync["jira"].pc]
               /\ http' = Response("projects/refresh-cache", method, 200, "started")
    /\ UNCHANGED <<it, pt, runs, remote, auth, calls>>

RefreshSpacesCacheHandler(method, failAt) ==
    /\ Alive /\ http.n < MaxRequests /\ "confluence" \in DOMAIN sync
    /\ LET cleared == ClearSpacesCache(Db, failAt)
       IN IF method # "POST"
          THEN /\ http' = Response("spaces/refresh-cache", method, 405, "")
               /\ UNCHANGED <<issues, projects, spaces, pages, buckets, sync, calls>>
          ELSE IF ~IsAuthenticated(auth)
          THEN /\ http' = Response("spaces/refresh-cache", method, 401, "error")
               /\ UNCHANGED <<issues, projects, spaces, pages, buckets, sync, calls>>
          ELSE IF cleared.err
          THEN /\ http' = Response("spaces/refresh-cache", method, 500, "error")
               /\ Written(cleared.db)
               /\ sync' = sync
          ELSE /\ Written(cleared.db)
               /\ sync' = IF sync["confluence"].pc \in {"idle", "done", "failed"}
                          THEN [sync EXCEPT !["confluence"] =
                                  [IdleSync EXCEPT !.pc = "list",
                                                   !.atCall = cleared.db.recs.confluence_spaces]]
                          ELSE [sync EXCEPT !["confluence"].clearedAt = sync["confluence"].pc]
               /\ http' = Response("spaces/refresh-cache", method, 200, "started")
    /\ UNCHANGED <<it, pt, runs, remote, auth, calls>>

ClearAllDataHandler_DropsAuth(method, failAt) ==
    /\ Alive /\ http.n < MaxRequests
    /\ LET cleared == ClearAllData(Db, failAt)
       IN IF method # "POST"
          THEN /\ http' = Response("data/clear-all", method, 405, "")
               /\ auth' = auth
               /\ UNCHANGED <<issues, projects, spaces, pages, buckets, calls>>
          ELSE /\ Written(cleared.db)
               /\ auth' = IF cleared.err THEN auth ELSE NotAuthenticated
               /\ http' = IF cleared.err THEN Response("data/clear-all", method, 500, "error")
                          ELSE Response("data/clear-all", method, 200, "success")
    /\ UNCHANGED <<it, pt, runs, remote, sync, calls>>
ClearAllDataHandler_Cancels(method, failAt) ==
    /\ Alive /\ http.n < MaxRequests
    /\ LET cleared == ClearAllData(Db, failAt)
       IN IF method # "POST"
          THEN /\ http' = Response("data/clear-all", method, 405, "")
               /\ it' = it
               /\ UNCHANGED <<issues, projects, spaces, pages, buckets, calls>>
          ELSE /\ Written(cleared.db)
               /\ it' = [t \in DOMAIN it |->
                           IF it[t].pc \in {"ready", "loop"}
                           THEN [it[t] EXCEPT !.pc = "failed", !.lastStop = "cancelled"]
                           ELSE it[t]]
               /\ http' = IF cleared.err THEN Response("data/clear-all", method, 500, "error")
                          ELSE Response("data/clear-all", method, 200, "success")
    /\ UNCHANGED <<pt, runs, remote, sync, auth, calls>>
\* POST /api/data/clear-all; the handler makes no authentication test.
ClearAllDataHandler(method, failAt) ==
    /\ Alive /\ http.n < MaxRequests
    /\ LET cleared == ClearAllData(Db, failAt)
       IN IF method # "POST"
          THEN /\ http' = Response("data/clear-all", method, 405, "")
               /\ UNCHANGED <<issues, projects, spaces, pages, buckets, calls>>
          ELSE /\ Written(cleared.db)
               /\ http' = IF cleared.err THEN Response("data/clear-all", method, 500, "error")
                          ELSE Response("data/clear-all", method, 200, "success")
    /\ UNCHANGED <<it, pt, runs, remote, sync, auth, calls>>

\* A caller invokes ConfluenceScraperService.ClearAllData().
CallConfluenceClearAllData(failAt) ==
    /\ Alive /\ runs.s < MaxRuns
    /\ runs' = [runs EXCEPT !.s = @ + 1]
    /\ Written(ConfluenceClearAllData(Db, failAt).db)
    /\ UNCHANGED <<it, pt, remote, sync, auth, http, calls>>

\* GET or POST /api/scrape: "go ScrapeAll()", which calls ScrapeProjects; the
\* handler makes no authentication test.  Of two syncs of one kind the model
\* follows the earlier one.
ScrapeHandler(method) ==
    /\ Alive /\ http.n < MaxRequests /\ "jira" \in DOMAIN sync
    /\ IF method \notin {"GET", "POST"}
       THEN /\ http' = Response("scrape", method, 405, "")
            /\ sync' = sync
       ELSE /\ http' = Response("scrape", method, 200, "started")
            /\ sync' = IF sync["jira"].pc \in {"idle", "done", "failed"}
                       THEN [sync EXCEPT !["jira"] =
                               [IdleSync EXCEPT !.pc = "list", !.atCall = projects]]
                       ELSE sync
    /\ UNCHANGED <<issues, projects, spaces, pages, it, pt, runs, remote, auth, buckets, calls>>

\* The goroutine the get-issues handler starts for one key.
LaunchedIssueTask(projectKey) ==
    [IdleTask EXCEPT !.pc = "ready", !.projectKey = projectKey, !.keysAtCall = DOMAIN issues]

GetProjectIssuesHandler(method, body) ==
    /\ Alive /\ http.n < MaxRequests /\ DOMAIN it # {}
    /\ IF method # "POST"
       THEN /\ http' = Response("projects/get-issues", method, 405, "")
            /\ it' = it
       ELSE IF ~IsAuthenticated(auth)
       THEN /\ http' = Response("projects/get-issues", method, 401, "error")
            /\ it' = it
       ELSE IF ~body.ok \/ Len(body.keys) = 0
       THEN /\ http' = Response("projects/get-issues", method, 400, "")
            /\ it' = it
       ELSE /\ \A t \in DOMAIN it : it[t].pc \in {"idle", "done", "failed"}
            /\ it' = [t \in DOMAIN it |->
                        IF t <= Len(body.keys) THEN LaunchedIssueTask(body.keys[t]) ELSE it[t]]
            /\ http' = Response("projects/get-issues", method, 200, "started")
    /\ UNCHANGED <<issues, projects, spaces, pages, pt, runs, remote, sync, auth, buckets, calls>>

\* The goroutine the get-pages handler starts for one key.
LaunchedPageTask(spaceKey) ==
    [IdlePageTask EXCEPT !.pc = "ready", !.spaceKey = spaceKey, !.keysAtCall = DOMAIN pages]

GetSpacePagesHandler(method, body) ==
    /\ Alive /\ http.n < MaxRequests /\ DOMAIN pt # {}
    /\ IF method # "POST"
       THEN /\ http' = Response("spaces/get-pages", method, 405, "")
            /\ pt' = pt
       ELSE IF ~IsAuthenticated(auth)
       THEN /\ http' = Response("spaces/get-pages", method, 401, "error")
            /\ pt' = pt
       ELSE IF ~body.ok \/ Len(body.keys) = 0
       THEN /\ http' = Response("spaces/get-pages", method, 400, "")
            /\ pt' = pt
       ELSE /\ \A t \in DOMAIN pt : pt[t].pc \in {"idle", "done", "failed"}
            /\ pt' = [t \in DOMAIN pt |->
                        IF t <= Len(body.keys) THEN LaunchedPageTask(body.keys[t]) ELSE pt[t]]
            /\ http' = Response("spaces/get-pages", method, 200, "started")
    /\ UNCHANGED <<issues, projects, spaces, pages, it, runs, remote, sync, auth, buckets, calls>>

\* ------------------------------------------------------ specifications
EmptyStore ==
    /\ issues = EmptyBucket
    /\ projects = EmptyBucket
    /\ spaces = EmptyBucket
    /\ pages = EmptyBucket

NoIssueTasks == it = [t \in {} |-> IdleTask]
NoPageTasks == pt = [t \in {} |-> IdlePageTask]
NoSync == sync = [k \in {} |-> IdleSync]

\* The issue fetch, called for any key by one caller, one call after the other.
NextIssues ==
    \/ \E t \in DOMAIN it, K \in ContainerKeys : CallGetProjectIssues(t, K)
    \/ \E t \in DOMAIN it : GetProjectIssues(t)
    \/ \E t \in DOMAIN it : scrapeProjectIssues(t)

\* SpecIssues: two calls; the remote may answer every request with any
\* response, misrouted items included.
InitIssues ==
    /\ EmptyStore
    /\ it = [t \in {1} |-> IdleTask]
    /\ NoPageTasks
    /\ runs = [i |-> MaxRuns - 2, p |-> 0, s |-> 0]
    /\ remote = [mode |-> "any", routed |-> FALSE]
    /\ NoSync /\ auth = Authenticated /\ http = NoRequest
    /\ buckets = BucketNames
    /\ calls = NoCalls
SpecIssues == InitIssues /\ [][NextIssues]_vars

\* SpecOnce: one call; the remote may answer every request with any response
\* whose items carry the queried key.
InitOnce ==
    /\ EmptyStore
    /\ it = [t \in {1} |-> IdleTask]
    /\ NoPageTasks
    /\ runs = [i |-> MaxRuns - 1, p |-> 0, s |-> 0]
    /\ remote = [mode |-> "any", routed |-> TRUE]
    /\ NoSync /\ auth = Authenticated /\ http = NoRequest
    /\ buckets = BucketNames
    /\ calls = NoCalls
SpecOnce == InitOnce /\ [][NextIssues]_vars

\* SpecRepeat: the remote answers every request with the same page.
InitRepeat ==
    /\ EmptyStore
    /\ it = [t \in {1} |-> IdleTask]
    /\ NoPageTasks
    /\ runs = [i |-> 0, p |-> 0, s |-> 0]
    /\ \E K \in ContainerKeys : \E resp \in RoutedResponses[K] \ {ErrResp} :
          remote = [mode |-> "repeat", resp |-> resp]
    /\ NoSync /\ auth = Authenticated /\ http = NoRequest
    /\ buckets = BucketNames
    /\ calls = NoCalls
SpecRepeat == InitRepeat /\ [][NextIssues]_vars


\* The page fetch, called for any key by one caller, one call after the other.
NextPages ==
    \/ \E t \in DOMAIN pt, K \in ContainerKeys : CallGetSpacePages(t, K)
    \/ \E t \in DOMAIN pt : GetSpacePages(t)
    \/ \E t \in DOMAIN pt : scrapeSpacePagesRound(t)
    \/ \E t \in DOMAIN pt : scrapeSpacePagesSlot(t)
    \/ \E t \in DOMAIN pt : scrapeSpacePagesPost(t)

\* Contents of the bucket confluence_spaces when a fetch starts: space "A" was
\* synced before (its count fetch failed, or reported MaxTotal), "B" was not.
SpaceBuckets ==
    {[K \in {"A"} |-> SpaceRecord(1, c)] : c \in {UnknownCount, MaxTotal}}

\* SpecPages: two calls of GetSpacePages, one after the other; the remote may
\* answer every request with any response.
InitPages ==
    /\ issues = EmptyBucket /\ projects = EmptyBucket /\ pages = EmptyBucket
    /\ spaces \in SpaceBuckets
    /\ NoIssueTasks
    /\ pt = [t \in {1} |-> IdlePageTask]
    /\ runs = [i |-> 0, p |-> MaxRuns - 2, s |-> 0]
    /\ remote = [mode |-> "any", routed |-> TRUE]
    /\ NoSync /\ auth = Authenticated /\ http = NoRequest
    /\ buckets = BucketNames
    /\ calls = NoCalls
SpecPages == InitPages /\ [][NextPages]_vars

\* SpecData: the remote serves an unchanging data set; project and space "A"
\* hold one of the sizes of DataSizes, "B" holds one item; the count endpoint is unreliable
\* (it fails or reports any total) but answers the same every time.  One
\* caller fetches issues, another fetches pages, each one call after the other.
DataSizes == {0, 1, maxResults, maxResults + 1, MaxData}
DataRemotes ==
    {[mode |-> "data", reportsLast |-> l,
      size  |-> [K \in ContainerKeys |-> IF K = "A" THEN n ELSE 1],
      count |-> [K \in ContainerKeys |-> IF K = "A" THEN c ELSE CountErr]] :
        l \in BOOLEAN, n \in DataSizes, c \in CountResponses}
InitData ==
    /\ issues = EmptyBucket /\ projects = EmptyBucket /\ pages = EmptyBucket
    /\ spaces = [K \in {"A"} |-> SpaceRecord(1, MaxTotal)]
    /\ it = [t \in {1} |-> IdleTask]
    /\ pt = [t \in {1} |-> IdlePageTask]
    /\ runs = [i |-> 0, p |-> 0, s |-> 0]
    /\ remote \in DataRemotes
    /\ NoSync /\ auth = Authenticated /\ http = NoRequest
    /\ buckets = BucketNames
    /\ calls = NoCalls
NextData == NextIssues \/ NextPages
SpecData == InitData /\ [][NextData]_vars

\* SpecCount: the remote lists project "A", which holds an unchanging set of
\* issues of one of the sizes of DataSizes; one sync of the projects and one
\* fetch of the issues of "A" run in any order.
NextCount ==
    \/ CallSync("jira")
    \/ ScrapeProjectsList
    \/ \E index \in 1..MaxListed : ScrapeProjectsCount(index)
    \/ ScrapeProjectsStore
    \/ \E t \in DOMAIN it : CallGetProjectIssues(t, "A")
    \/ \E t \in DOMAIN it : GetProjectIssues(t)
    \/ \E t \in DOMAIN it : scrapeProjectIssues(t)
InitCount ==
    /\ EmptyStore
    /\ it = [t \in {1} |-> IdleTask]
    /\ NoPageTasks
    /\ sync = [k \in {"jira"} |-> IdleSync]
    /\ runs = [i |-> MaxRuns - 1, p |-> 0, s |-> MaxRuns - 1]
    /\ \E l \in BOOLEAN, n \in DataSizes :
          remote = [mode |-> "data", reportsLast |-> l,
                    size |-> [K \in ContainerKeys |-> n],
                    count |-> [K \in ContainerKeys |-> CountErr],
                    listed |-> <<"A">>]
    /\ auth = Authenticated /\ http = NoRequest
    /\ buckets = BucketNames
    /\ calls = NoCalls
SpecCount == InitCount /\ [][NextCount]_vars

\* SpecOverlap: the remote lists space "A", which holds an unchanging set of
\* pages; its count endpoint fails or reports any total, the same every time.
\* One sync of the spaces runs, and while it runs GetSpacePages("A") is called.
NextOverlap ==
    \/ CallSync("confluence")
    \/ ScrapeConfluenceList
    \/ \E index \in 1..MaxListed : ScrapeConfluenceCount(index)
    \/ ScrapeConfluenceStore
    \/ \E t \in DOMAIN pt :
          sync["confluence"].pc \in {"list", "count"} /\ CallGetSpacePages(t, "A")
    \/ \E t \in DOMAIN pt : GetSpacePages(t)
    \/ \E t \in DOMAIN pt : scrapeSpacePagesRound(t)
    \/ \E t \in DOMAIN pt : scrapeSpacePagesSlot(t)
    \/ \E t \in DOMAIN pt : scrapeSpacePagesPost(t)
InitOverlap ==
    /\ issues = EmptyBucket /\ projects = EmptyBucket /\ pages = EmptyBucket
    /\ spaces = [K \in {"A"} |-> SpaceRecord(1, MaxTotal)]
    /\ NoIssueTasks
    /\ pt = [t \in {1} |-> IdlePageTask]
    /\ sync = [k \in {"confluence"} |-> IdleSync]
    /\ runs = [i |-> 0, p |-> MaxRuns - 1, s |-> MaxRuns - 1]
    /\ \E n \in DataSizes, c \in CountResponses :
          remote = [mode |-> "data", reportsLast |-> TRUE,
                    size |-> [K \in ContainerKeys |-> n],
                    count |-> [K \in ContainerKeys |-> c],
                    listed |-> <<"A">>]
    /\ auth = Authenticated /\ http = NoRequest
    /\ buckets = BucketNames
    /\ calls = NoCalls
SpecOverlap == InitOverlap /\ [][NextOverlap]_vars

\* SpecSync: one index sync, of the projects or of the spaces, on a store
\* that is empty or was synced before; the remote
\* lists any containers (entries without a string key included) and may
\* answer every request with any response.
NextSync ==
    \/ \E kind \in DOMAIN sync : CallSync(kind)
    \/ ScrapeProjectsList
    \/ \E index \in 1..MaxListed : ScrapeProjectsCount(index)
    \/ ScrapeProjectsStore
    \/ ScrapeConfluenceList
    \/ \E index \in 1..MaxListed : ScrapeConfluenceCount(index)
    \/ ScrapeConfluenceStore
InitSync ==
    /\ issues = EmptyBucket /\ pages = EmptyBucket
    /\ \E synced \in BOOLEAN :
          /\ projects = IF synced THEN [K \in {"A"} |-> ProjectRecord(1, MaxTotal)]
                        ELSE EmptyBucket
          /\ spaces = IF synced THEN [K \in {"A"} |-> SpaceRecord(1, MaxTotal)]
                      ELSE EmptyBucket
    /\ NoIssueTasks /\ NoPageTasks
    /\ \E kind \in {"jira", "confluence"} : sync = [k \in {kind} |-> IdleSync]
    /\ runs = [i |-> 0, p |-> 0, s |-> MaxRuns - 1]
    /\ \E l \in SeqsUpTo(ListedKeys, MaxListed) :
          remote = [mode |-> "any", routed |-> TRUE, listed |-> l]
    /\ auth = Authenticated /\ http = NoRequest
    /\ buckets = BucketNames
    /\ calls = NoCalls
SpecSync == InitSync /\ [][NextSync]_vars

\* SpecFanout: one get-issues or get-pages request, one goroutine per key of
\* the request, all running concurrently; the store holds issues of earlier
\* fetches; the remote may answer every request with any response over the
\* container's own items.
FanoutStores ==
    {StoreBatch(EmptyBucket, [i \in 1..Len(q) |-> Item(KeyOf(q[i], 1), q[i])], "")
        : q \in {<<>>, <<"A", "B">>}}
NextFanout ==
    \/ \E method \in Methods, body \in KeyBodies : GetProjectIssuesHandler(method, body)
    \/ \E t \in DOMAIN it : GetProjectIssues(t)
    \/ \E t \in DOMAIN it : scrapeProjectIssues(t)
    \/ \E method \in Methods, body \in PageKeyBodies : GetSpacePagesHandler(method, body)
    \/ \E t \in DOMAIN pt : GetSpacePages(t)
    \/ \E t \in DOMAIN pt : scrapeSpacePagesRound(t)
    \/ \E t \in DOMAIN pt : scrapeSpacePagesSlot(t)
    \/ \E t \in DOMAIN pt : scrapeSpacePagesPost(t)
InitFanout ==
    /\ issues \in FanoutStores
    /\ projects = EmptyBucket /\ spaces = EmptyBucket /\ pages = EmptyBucket
    /\ it = [t \in {1, 2} |-> IdleTask]
    /\ pt = [t \in {1, 2} |-> IdlePageTask]
    /\ NoSync
    /\ runs = [i |-> 0, p |-> 0, s |-> 0]
    /\ remote = [mode |-> "own"]
    /\ auth = Authenticated
    /\ http = [NoRequest EXCEPT !.n = MaxRequests - 1]
    /\ buckets = BucketNames
    /\ calls = NoCalls
SpecFanout == InitFanout /\ [][NextFanout]_vars

\* SpecTwin: the fan-out of SpecFanout against an unchanging remote data set;
\* the request may name the same key twice.
InitTwin ==
    /\ issues \in FanoutStores
    /\ projects = EmptyBucket /\ spaces = EmptyBucket /\ pages = EmptyBucket
    /\ it = [t \in {1, 2} |-> IdleTask]
    /\ pt = [t \in {1, 2} |-> IdlePageTask]
    /\ NoSync
    /\ runs = [i |-> 0, p |-> 0, s |-> 0]
    /\ remote \in DataRemotes
    /\ auth = Authenticated
    /\ http = [NoRequest EXCEPT !.n = MaxRequests - 1]
    /\ buckets = BucketNames
    /\ calls = NoCalls
SpecTwin == InitTwin /\ [][NextFanout]_vars

\* SpecHandlers: the server starts without authentication, with a store
\* filled by an earlier session; three requests arrive in any order, the
\* tasks the handlers start run concurrently against an unchanging remote
\* data set.
HandlerRemote ==
    [mode |-> "data", reportsLast |-> TRUE,
     size  |-> [K \in ContainerKeys |-> maxResults + 1],
     count |-> [K \in ContainerKeys |-> CountOk(1)],
     listed |-> <<"A">>]
NextHandlers ==
    \/ \E method \in Methods, body \in AuthBodies, impl \in UpdateAuthImpls, dbOk \in BOOLEAN :
          AuthUpdateHandler(method, body, impl, dbOk)
    \/ \E method \in Methods, failAt \in ClearFailures(<<"projects">>) :
          RefreshProjectsCacheHandler(method, failAt)
    \/ \E method \in Methods, failAt \in ClearFailures(<<"confluence_spaces">>) :
          RefreshSpacesCacheHandler(method, failAt)
    \/ \E method \in Methods, failAt \in ClearFailures(ClearAllNames) :
          ClearAllDataHandler(method, failAt)
    \/ \E failAt \in ClearFailures(ConfluenceClearAllNames) :
          CallConfluenceClearAllData(failAt)
    \/ \E method \in Methods : ScrapeHandler(method)
    \/ \E method \in Methods, body \in KeyBodies : GetProjectIssuesHandler(method, body)
    \/ \E method \in Methods, body \in PageKeyBodies : GetSpacePagesHandler(method, body)
    \/ \E t \in DOMAIN it : GetProjectIssues(t)
    \/ \E t \in DOMAIN it : scrapeProjectIssues(t)
    \/ \E t \in DOMAIN pt : GetSpacePages(t)
    \/ \E t \in DOMAIN pt : scrapeSpacePagesRound(t)
    \/ \E t \in DOMAIN pt : scrapeSpacePagesSlot(t)
    \/ \E t \in DOMAIN pt : scrapeSpacePagesPost(t)
    \/ ScrapeProjectsList
    \/ \E index \in 1..MaxListed : ScrapeProjectsCount(index)
    \/ ScrapeProjectsStore
    \/ ScrapeConfluenceList
    \/ \E index \in 1..MaxListed : ScrapeConfluenceCount(index)
    \/ ScrapeConfluenceStore
InitHandlers ==
    /\ issues = StoreBatch(EmptyBucket, <<Item(KeyOf("A", 1), "A")>>, "A")
    /\ projects = [K \in {"A"} |-> ProjectRecord(1, MaxTotal)]
    /\ spaces = [K \in {"A"} |-> SpaceRecord(1, MaxTotal)]
    /\ pages = StorePages(EmptyBucket, <<KeyOf("A", 1)>>, "A")
    /\ it = [t \in {1} |-> IdleTask]
    /\ pt = [t \in {1} |-> IdlePageTask]
    /\ sync = [k \in {"jira", "confluence"} |-> IdleSync]
    /\ runs = [i |-> 0, p |-> 0, s |-> 0]
    /\ remote = HandlerRemote
    /\ auth = NotAuthenticated
    /\ http = [NoRequest EXCEPT !.n = MaxRequests - 3]
    /\ buckets = BucketNames
    /\ calls = NoCalls
SpecHandlers == InitHandlers /\ [][NextHandlers]_vars

\* SpecAuth: the service starts without authentication; one goroutine calls
\* UpdateAuth twice, one after the other, while a fetch task makes one
\* request, which the remote answers with status 200.
OkOutcomes == {o \in Outcomes : ~o.doErr /\ o.status = 200 /\ ~o.readErr /\ o.body # ""}
NextAuth ==
    \/ \E impl \in UpdateAuthImpls, authData \in AuthDatas, dbOk \in BOOLEAN :
          CallUpdateAuth(impl, authData, dbOk)
    \/ UpdateAuthStep
    \/ CallMakeRequest
    \/ makeRequestBaseURL
    \/ makeRequestUserAgent
    \/ \E outcome \in OkOutcomes : makeRequestDo(outcome)
InitAuth ==
    /\ EmptyStore
    /\ NoIssueTasks /\ NoPageTasks /\ NoSync
    /\ runs = [i |-> MaxRuns - 1, p |-> 0, s |-> MaxRuns - 2]
    /\ remote = [mode |-> "any", routed |-> TRUE]
    /\ auth = NotAuthenticated
    /\ http = NoRequest
    /\ buckets = BucketNames
    /\ calls = NoCalls
SpecAuth == InitAuth /\ [][NextAuth]_vars

\* SpecRequest: a service authenticated with any auth data; a fetch task
\* makes two requests, one after the other, each with any outcome.
NextRequest ==
    \/ CallMakeRequest
    \/ makeRequestBaseURL
    \/ makeRequestUserAgent
    \/ \E outcome \in Outcomes : makeRequestDo(outcome)
InitRequest ==
    /\ EmptyStore
    /\ NoIssueTasks /\ NoPageTasks /\ NoSync
    /\ runs = [i |-> MaxRuns - 2, p |-> 0, s |-> 0]
    /\ remote = [mode |-> "any", routed |-> TRUE]
    /\ \E d \in AuthDatas : auth = UpdateAuth(NotAuthenticated, d, TRUE)
    /\ IsAuthenticated(auth)
    /\ http = NoRequest
    /\ buckets = BucketNames
    /\ calls = NoCalls
SpecRequest == InitRequest /\ [][NextRequest]_vars

\* ------------------------------------------------------------- claims
Finished(t) == it[t].pc = "done"

C4_BoundedRequests ==
    \A t \in DOMAIN it :
        /\ it[t].requests <= maxIterations
        /\ it[t].requests = maxIterations => it[t].pc # "loop"

\* The fetch ran to the cap: every request was answered with a full page
\* holding an unseen key and no isLast.
C4_Witness ==
    \E t \in DOMAIN it :
        /\ Finished(t) /\ it[t].lastStop = "maxIterations"
        /\ it[t].requests = maxIterations
        /\ it[t].totalFetched >= maxIterations
        /\ it[t].startAt = maxIterations * maxResults

\* C6 (as stated): against a remote that repeats one page, only the first
\* page is stored and the loop does not run to the cap.
C6_StopsAfterFirstPage ==
    \A t \in DOMAIN it : Finished(t) =>
        /\ it[t].storedBatches <= 1
        /\ it[t].lastStop # "maxIterations"

\* C6 (amended): against a remote that repeats one page in which at least
\* one issue has a string key, only the first page is stored and the fetch
\* ends with the second request at the latest.
C6_StopsAfterFirstKeyedPage ==
    \A t \in DOMAIN it :
        (it[t].pc \in {"loop", "done"} /\ BatchKeys(remote.resp.issues) # {}) =>
            /\ it[t].storedBatches <= 1
            /\ it[t].requests <= 2
            /\ it[t].requests = 2 => (Finished(t) /\ it[t].lastStop = "duplicates")

\* The repeated full page was stored once and recognised on the second request.
C6_Witness ==
    \E t \in DOMAIN it :
        /\ Finished(t) /\ it[t].lastStop = "duplicates"
        /\ it[t].requests = 2 /\ it[t].storedBatches = 1
        /\ Len(remote.resp.issues) = maxResults /\ ~remote.resp.isLast

PageFinished(t) == pt[t].pc = "done"

\* C2: after GetSpacePages(K) returns without error, no page stored for space
\* K remains that is absent from this fetch's result set.
C2_NoStalePage ==
    \A t \in DOMAIN pt : PageFinished(t) =>
        \A id \in DOMAIN pages :
            pages[id].space = pt[t].spaceKey => id \in pt[t].resultIds

\* C5: the pagination loop of the page fetch is bounded by the maximum
\* iteration count.
C5_PageLoopBounded ==
    \A t \in DOMAIN pt : pt[t].rounds <= maxIterations

C9_Idempotent ==
    /\ \A t \in DOMAIN it :
         (Finished(t) /\ it[t].prevKey = it[t].projectKey) =>
            DOMAIN issues = it[t].keysAtCall
    /\ \A t \in DOMAIN pt :
         (PageFinished(t) /\ pt[t].prevKey = pt[t].spaceKey) =>
            DOMAIN pages = pt[t].keysAtCall

\* Both kinds of fetch ran twice for the same key and stored more than one
\* request's worth of items.
C9_Witness ==
    /\ \E t \in DOMAIN it :
         /\ Finished(t) /\ it[t].prevKey = it[t].projectKey
         /\ it[t].requests > 1 /\ Cardinality(DOMAIN issues) > maxResults
    /\ \E t \in DOMAIN pt :
         /\ PageFinished(t) /\ pt[t].prevKey = pt[t].spaceKey
         /\ pt[t].rounds > 1 /\ Cardinality(DOMAIN pages) > limit

StoredCount(kind, key) ==
    IF kind = "jira" THEN projects[key].issueCount ELSE spaces[key].pageCount
\* The entry whose record the store transaction leaves under its key.
LastOfKey(list, i) == \A j \in (i + 1)..Len(list) : list[j].key # list[i].key

\* C3: after an index sync, the record of a container whose count fetch
\* failed carries the "unknown" sentinel, a value different from every real
\* count, 0 included.
C3_FailedCountStoresSentinel ==
    \A kind \in DOMAIN sync : sync[kind].pc = "done" =>
        \A i \in 1..Len(sync[kind].list) :
            LET e == sync[kind].list[i]
            IN (e.key # "" /\ e.failed /\ LastOfKey(sync[kind].list, i)) =>
                  /\ StoredCount(kind, e.key) = UnknownCount
                  /\ StoredCount(kind, e.key) \notin 0..MaxTotal

Complete(t) == it[t].pc \in {"done", "failed"}
IssuesOf(projectKey) == {k \in DOMAIN issues : issues[k].proj = projectKey}

\* C8: when the fetches of two different keys, started by one get-issues
\* request, have both completed, the stored issues whose embedded project key
\* is the key of one fetch are exactly the issues that fetch received.
C8_FanoutIsolated ==
    \A t \in DOMAIN it, u \in DOMAIN it :
        (Complete(t) /\ Complete(u) /\ it[t].projectKey # it[u].projectKey) =>
            IssuesOf(it[t].projectKey) = it[t].resultKeys

\* Both fetches deleted stored issues of their key, stored a batch and
\* returned without error, and issues of both keys are stored.
C8_Witness ==
    \E t \in DOMAIN it, u \in DOMAIN it :
        /\ it[t].projectKey = "A" /\ it[u].projectKey = "B"
        /\ Finished(t) /\ Finished(u)
        /\ it[t].deleted > 0 /\ it[u].deleted > 0
        /\ it[t].storedBatches > 0 /\ it[u].storedBatches > 0
        /\ IssuesOf("A") # {} /\ IssuesOf("B") # {}

AuthRequired ==
    {"projects/refresh-cache", "spaces/refresh-cache", "projects/get-issues", "spaces/get-pages"}
Unauthenticated == ~(auth.client /\ auth.baseURL # "")

\* C10: a POST to an auth-required endpoint served while not authenticated is
\* answered 401 with status "error"; it changes no partition and starts no task.
C10_RejectedUnauthenticated ==
    [][(http'.n # http.n /\ http'.endpoint \in AuthRequired /\ http'.method = "POST"
          /\ Unauthenticated) =>
            /\ http'.code = 401 /\ http'.status = "error"
            /\ UNCHANGED <<issues, projects, spaces, pages, it, pt, sync, auth>>]_vars

\* A refresh-cache for the projects was rejected although auth data had been
\* captured (with an empty base URL); the projects partition still holds its
\* record.
C10_Witness ==
    /\ http.endpoint = "projects/refresh-cache" /\ http.code = 401 /\ http.status = "error"
    /\ http.n > 1
    /\ auth.client /\ auth.baseURL = ""
    /\ projects = [K \in {"A"} |-> ProjectRecord(1, MaxTotal)]
    /\ sync["jira"].pc = "idle"

SyncBucket(kind) == IF kind = "jira" THEN projects ELSE spaces

C12_ListFailureAborts ==
    \A kind \in DOMAIN sync :
        sync[kind].listErr =>
            /\ sync[kind].pc = "failed"
            /\ \A i \in 1..Len(sync[kind].list) : ~sync[kind].list[i].counted
            /\ SyncBucket(kind) = sync[kind].atCall

\* The second request of the paginated space list failed after a full first
\* page; the spaces bucket still holds the record of an earlier sync.
C12_Witness ==
    /\ "confluence" \in DOMAIN sync
    /\ sync["confluence"].pc = "failed" /\ sync["confluence"].listErr
    /\ sync["confluence"].start = limit /\ Len(sync["confluence"].list) = limit
    /\ spaces = [K \in {"A"} |-> SpaceRecord(1, MaxTotal)]

\* C13: the items of one fetched page are committed in one transaction: a
\* step of a fetch that stores a page leaves the bucket with all items of a
\* page the remote answers with, and a step in which a put of the store
\* transaction fails leaves the bucket as it was.
C13_PageCommittedWhole ==
    [][/\ \A t \in DOMAIN it :
            /\ (it[t].pc = "loop" /\ it'[t].storedBatches # it[t].storedBatches) =>
                  \E resp \in Answers(it[t].projectKey, it[t].startAt) :
                      issues' = StoreBatch(issues, resp.issues, it[t].projectKey)
            /\ (it'[t].lastStop = "store" /\ it[t].pc = "loop") => issues' = issues
       /\ \A t \in DOMAIN pt :
            /\ (pt[t].pc = "slots" /\ pages' # pages) =>
                  \E resp \in PageAnswers(pt[t].spaceKey, pt[t].start + pt[t].i * limit) :
                      pages' = StorePages(pages, resp.pages, pt[t].spaceKey)
            /\ (pt'[t].putErr /\ ~pt[t].putErr) => pages' = pages]_vars

\* An issue fetch and a page fetch each stored a page and then returned the
\* error of a put that failed after an earlier put of the same transaction.
C13_Witness ==
    /\ \E t \in DOMAIN it :
          /\ it[t].pc = "failed" /\ it[t].lastStop = "store" /\ it[t].storedBatches > 0
          /\ Cardinality(DOMAIN issues) = maxResults
          /\ remote.size[it[t].projectKey] >= maxResults + maxResults
    /\ \E t \in DOMAIN pt :
          /\ pt[t].pc = "failed" /\ pt[t].putErr /\ pt[t].totalPages > 0
          /\ Cardinality(DOMAIN pages) = limit

\* The request just answered was a clear that failed.
ClearEndpoints == {"projects/refresh-cache", "spaces/refresh-cache", "data/clear-all"}
ClearFailed == http'.n # http.n /\ http'.endpoint \in ClearEndpoints /\ http'.code = 500

\* C14: after initialization every bucket (projects, issues,
\* confluence_spaces, confluence_pages, auth) exists in every state a reader or
\* writer can observe, before and after every step, the clears included; and
\* a clear that fails leaves every bucket and its records as they were.
C14_PartitionsAlwaysExist ==
    [][/\ buckets = BucketNames /\ buckets' = BucketNames
       /\ ClearFailed => UNCHANGED <<issues, projects, spaces, pages, buckets>>]_vars
\* A clear-all failed in the middle of its transaction and the records are
\* all still there.
C14_Witness ==
    /\ http.endpoint = "data/clear-all" /\ http.code = 500
    /\ buckets = BucketNames
    /\ DOMAIN issues # {} /\ DOMAIN projects # {} /\ DOMAIN spaces # {} /\ DOMAIN pages # {}

\* C15: the step in which POST /api/data/clear-all answers "success" leaves
\* the projects, issues, confluence_spaces and confluence_pages buckets without
\* any record, all four emptied in that one step.
C15_ClearAllEmptiesAll ==
    [][(http'.n # http.n /\ http'.endpoint = "data/clear-all" /\ http'.status = "success")
       => (issues' = EmptyBucket /\ projects' = EmptyBucket
           /\ spaces' = EmptyBucket /\ pages' = EmptyBucket)]_vars
\* A clear-all has answered "success" and the four buckets are empty.
C15_Witness ==
    /\ http.endpoint = "data/clear-all" /\ http.status = "success"
    /\ issues = EmptyBucket /\ projects = EmptyBucket
    /\ spaces = EmptyBucket /\ pages = EmptyBucket

\* The credentials some auth data carries, as a request uses them.
Consistent(r) ==
    \E d \in AuthDatas :
        r.baseURL = d.baseURL /\ r.userAgent = d.userAgent /\ r.jar = d.cookies

\* C16: a request a fetch task sends while UpdateAuth runs in another
\* goroutine carries the base URL, the user agent and the cookies of one and
\* the same auth data: all three of the old bundle or all three of the new one.
C16_RequestNotMixed == calls.request.pc = "returned" => Consistent(calls.request)

\* The last UpdateAuth call has returned and none is running.
Applied == calls.update.step = 0 /\ calls.update.n > 0
\* The token name of d, the empty string when d has none.
TokenOf(d, name) == IF name \in DOMAIN d.tokens THEN d.tokens[name] ELSE ""

\* C17: after UpdateAuth(b) has returned, the held base URL, user agent,
\* cookies, cloud id and CSRF token are exactly those of b; a cloud id or token
\* that b lacks is not held any more.
C17_SupersededInFull ==
    Applied =>
        LET b == calls.update.authData
        IN /\ auth.baseURL = b.baseURL /\ auth.userAgent = b.userAgent
           /\ auth.jar = b.cookies
           /\ auth.cloudId = TokenOf(b, "cloudId")
           /\ auth.atlToken = TokenOf(b, "atlToken")

\* C18: an UpdateAuth whose save in bucket "auth" failed returns no error,
\* holds the client, base URL and user agent of the new bundle, and makes
\* IsAuthenticated() true when the base URL of the bundle is not empty.
C18_PersistFailureIsNotAnError ==
    (Applied /\ ~calls.update.dbOk) =>
        LET b == calls.update.authData
        IN /\ ~calls.update.err
           /\ auth.client /\ auth.jar = b.cookies
           /\ auth.baseURL = b.baseURL /\ auth.userAgent = b.userAgent
           /\ (b.baseURL # "" => IsAuthenticated(auth))

\* C19: IsAuthenticated() is false before the first UpdateAuth, and once an
\* UpdateAuth has returned it is true exactly when the base URL of the last
\* bundle is not empty, whether or not the bundle carries a cloud id or a CSRF
\* token; while an UpdateAuth is running it is true exactly when the client is
\* already set and the base URL held at that moment is not empty.
C19_AuthenticatedIffClientAndBaseURL ==
    /\ (calls.update.n = 0 /\ calls.update.step <= 1) => ~IsAuthenticated(auth)
    /\ Applied => (IsAuthenticated(auth) <=> calls.update.authData.baseURL # "")
    /\ IsAuthenticated(auth) <=>
          /\ calls.update.n > 0 \/ calls.update.step > 1
          /\ auth.baseURL # ""
\* An UpdateAuth with a base URL and neither cloud id nor CSRF token has
\* returned, after one with cookies and an empty base URL: authenticated.
C19_Witness ==
    /\ Applied /\ calls.update.n = 2
    /\ calls.update.authData.baseURL # "" /\ DOMAIN calls.update.authData.tokens = {}
    /\ auth.cloudId = "" /\ auth.atlToken = ""
    /\ IsAuthenticated(auth)

C21_CountSentinelOrNonNegative ==
    /\ \A K \in DOMAIN projects :
          projects[K].issueCount = UnknownCount \/ projects[K].issueCount >= 0
    /\ \A K \in DOMAIN spaces :
          spaces[K].pageCount = UnknownCount \/ spaces[K].pageCount >= 0

\* The keys of the list a sync fetched.
KeysOf(list) == {list[i].key : i \in 1..Len(list)}

\* C22: an index sync that has returned has neither removed nor changed the
\* record of any key absent from the list it fetched, and has created records
\* only for keys of that list.
C22_SyncNeverPrunes ==
    \A kind \in DOMAIN sync :
        sync[kind].pc = "done" =>
            LET before == sync[kind].atCall
                after  == SyncBucket(kind)
                listed == KeysOf(sync[kind].list)
            IN /\ \A K \in DOMAIN before \ listed :
                     K \in DOMAIN after /\ after[K] = before[K]
               /\ DOMAIN after \ DOMAIN before \subseteq listed
\* A sync of the projects has returned whose list held "B" and not "A": the
\* record of "A" an earlier sync stored is still there beside that of "B".
C22_Witness ==
    /\ "jira" \in DOMAIN sync /\ sync["jira"].pc = "done"
    /\ KeysOf(sync["jira"].list) = {"B"}
    /\ "A" \in DOMAIN sync["jira"].atCall
    /\ DOMAIN projects = {"A", "B"} /\ projects["A"] = ProjectRecord(1, MaxTotal)

\* C23: once a sync of the projects and a fetch of the issues of project K
\* have both returned without error, against an unchanging remote, the
\* issueCount stored for K is the number of issues stored for K.
C23_CountMatchesStored ==
    \A t \in DOMAIN it :
        (Finished(t) /\ "jira" \in DOMAIN sync /\ sync["jira"].pc = "done"
           /\ it[t].projectKey \in DOMAIN projects) =>
            projects[it[t].projectKey].issueCount = Cardinality(IssuesOf(it[t].projectKey))

\* C24: within one fetch the page requests are sequential: a request is sent
\* only when the page of every earlier request has been received and handled
\* (stored), so at most one request of a fetch is outstanding.
C24_RequestsNotPipelined ==
    /\ \A t \in DOMAIN it : it[t].pc = "loop" => it[t].requests = it[t].storedBatches
    /\ \A t \in DOMAIN pt : pt[t].requests <= pt[t].processed + 1

\* C25: a page fetch that has returned without error after the count
\* endpoint reported a positive count lower than the real number of pages of
\* the space has stored every page of the space, and the stored pageCount is
\* the real number.
C25_FetchesPastReportedCount ==
    \A t \in DOMAIN pt :
        LET K    == pt[t].spaceKey
            size == remote.size[K]
        IN (PageFinished(t) /\ pt[t].pageCount > 0 /\ pt[t].pageCount < size) =>
              /\ \A i \in 1..size : KeyOf(K, i) \in DOMAIN pages
              /\ K \in DOMAIN spaces => spaces[K].pageCount = size

\* C26: when GetSpacePages(K), called while a sync of the spaces was running,
\* has returned without error before the store step of that sync, the store
\* step leaves the pageCount of K at the number of pages the fetch received.
C26_EmpiricalCountSurvivesSync ==
    [][\A t \in DOMAIN pt :
         ("confluence" \in DOMAIN sync
            /\ sync["confluence"].pc = "count" /\ sync'["confluence"].pc = "done"
            /\ PageFinished(t) /\ pt[t].spaceKey \in DOMAIN spaces) =>
             spaces'[pt[t].spaceKey].pageCount = pt[t].totalPages]_vars

\* C27: within one issue fetch no store transaction puts a key that was seen
\* in an earlier page of the same fetch.
C27_DuplicatesNotRewritten == \A t \in DOMAIN it : it[t].rewritten = {}

\* C28: whatever page the remote answers to the request of a running fetch,
\* an empty page ends the loop without a store; a stored page ends the loop
\* when isLast is set and also when it holds fewer than maxResults items; and
\* when the loop goes on after a stored page, the next request starts at the
\* previous offset plus the number of items received.
C28_StopSignals ==
    \A t \in DOMAIN it :
        it[t].pc = "loop" =>
            \A resp \in Answers(it[t].projectKey, it[t].startAt) \ {ErrResp} :
                LET out == IterationOutcome(it[t], resp)
                    n   == Len(resp.issues)
                IN /\ n = 0 => ~out.store /\ out.task.pc = "done"
                   /\ out.store /\ resp.isLast => out.task.pc = "done"
                   /\ out.store /\ n < maxResults => out.task.pc = "done"
                   /\ out.store /\ out.task.pc = "loop" =>
                         out.task.startAt = it[t].startAt + n
\* A fetch that stored a full page without isLast and is about to request the
\* next one.
C28_Witness ==
    \E t \in DOMAIN it :
        /\ it[t].pc = "loop" /\ it[t].storedBatches = 1
        /\ it[t].startAt = maxResults /\ it[t].requests = 1

\* The page resp with the embedded project key of every item replaced by K.
Rerouted(resp, K) ==
    [resp EXCEPT !.issues = [i \in 1..Len(resp.issues) |-> Item(resp.issues[i].key, K)]]
Misrouted(item, K) == item.key # 0 /\ item.proj \notin {"", K}
\* C29: whatever page the remote answers to the request of a running fetch,
\* the iteration stores, stops and fails exactly as it would if every item of
\* the page carried the requested key, and the store transaction of the page
\* leaves every item that carries another project key in issues under the
\* item's own key, with the project key the item carries.
C29_WrongProjectIsWarningOnly ==
    \A t \in DOMAIN it :
        it[t].pc = "loop" =>
            \A resp \in {r \in Answers(it[t].projectKey, it[t].startAt) :
                            \E i \in 1..Len(r.issues) :
                                Misrouted(r.issues[i], it[t].projectKey)} :
                LET K     == it[t].projectKey
                    out   == IterationOutcome(it[t], resp)
                    same  == IterationOutcome(it[t], Rerouted(resp, K))
                    after == StoreBatchTx(issues, resp.issues, K, 0)
                IN /\ out.store = same.store
                   /\ out.task.pc = same.task.pc
                   /\ out.task.lastStop = same.task.lastStop
                   /\ out.task.startAt = same.task.startAt
                   /\ out.store =>
                         \A i \in 1..Len(resp.issues) :
                             Misrouted(resp.issues[i], K) =>
                                 /\ resp.issues[i].key \in DOMAIN after
                                 /\ \E j \in i..Len(resp.issues) :
                                       /\ resp.issues[j].key = resp.issues[i].key
                                       /\ after[resp.issues[i].key] =
                                             [proj |-> resp.issues[j].proj, by |-> K]
\* A fetch stored an item of another project and goes on to its next request.
C29_Witness ==
    \E t \in DOMAIN it :
        /\ it[t].pc = "loop" /\ it[t].storedBatches > 0
        /\ \E k \in DOMAIN issues :
              /\ issues[k].by = it[t].projectKey
              /\ issues[k].proj \notin {"", it[t].projectKey}

\* C30: in a fan-out, the step in which a request of one fetch fails changes
\* neither another fetch of the fan-out nor the store; and once the fetch of
\* A has failed on a request and the fetch of another container B has
\* returned without error, every item B's fetch received is stored as B's.
C30_FailureAbortsOnlyItsFetch ==
    [][/\ \A t \in DOMAIN it : \A u \in DOMAIN it \ {t} :
            (it[t].pc = "loop" /\ it'[t].pc = "failed" /\ it'[t].lastStop = "error") =>
                it'[u] = it[u] /\ issues' = issues
       /\ \A t \in DOMAIN pt : \A u \in DOMAIN pt \ {t} :
            (pt[t].pc = "slots" /\ pt'[t].pc = "failed" /\ ~pt'[t].putErr) =>
                pt'[u] = pt[u] /\ pages' = pages
       /\ \A t \in DOMAIN it, u \in DOMAIN it :
            (/\ it'[t].pc = "failed" /\ it'[t].lastStop = "error" /\ it'[u].pc = "done"
             /\ it'[t].projectKey # it'[u].projectKey) =>
                \A k \in it'[u].resultKeys :
                    k \in DOMAIN issues' /\ issues'[k].proj = it'[u].projectKey
       /\ \A t \in DOMAIN pt, u \in DOMAIN pt :
            (/\ pt'[t].pc = "failed" /\ ~pt'[t].putErr /\ pt'[u].pc = "done"
             /\ pt'[t].spaceKey # pt'[u].spaceKey) =>
                \A k \in pt'[u].resultIds :
                    k \in DOMAIN pages' /\ pages'[k].space = pt'[u].spaceKey]_vars
\* In one fan-out the fetch of A failed on a request and the fetch of B
\* stored a page and returned without error.
C30_Witness ==
    \E t \in DOMAIN it, u \in DOMAIN it :
        /\ it[t].projectKey = "A" /\ it[t].pc = "failed" /\ it[t].lastStop = "error"
        /\ it[u].projectKey = "B" /\ Finished(u)
        /\ it[u].storedBatches > 0 /\ it[u].resultKeys # {}
        /\ it[u].resultKeys \subseteq DOMAIN issues
\* The same for a get-pages fan-out, B's fetch storing all pages of B.
C30_PageWitness ==
    \E t \in DOMAIN pt, u \in DOMAIN pt :
        /\ pt[t].spaceKey = "A" /\ pt[t].pc = "failed" /\ ~pt[t].putErr
        /\ pt[u].spaceKey = "B" /\ PageFinished(u)
        /\ pt[u].resultIds = {KeyOf("B", i) : i \in 1..MaxTotal}
        /\ pt[u].resultIds \subseteq DOMAIN pages

\* C31: when a request of GetProjectIssues(K) has failed and no other fetch
\* of K ran beside it, the stored issues that carry K are exactly the items
\* of the pages the fetch received before the failing request.
C31_FailureKeepsCommittedPages ==
    \A t \in DOMAIN it :
        (/\ it[t].pc = "failed" /\ it[t].lastStop = "error"
         /\ \A u \in DOMAIN it \ {t} : it[u].projectKey # it[t].projectKey) =>
            IssuesOf(it[t].projectKey) = it[t].resultKeys
\* The pre-step deleted a stored issue of A, the first page was committed and
\* the request for the second page failed.
C31_Witness ==
    \E t \in DOMAIN it :
        /\ it[t].pc = "failed" /\ it[t].lastStop = "error" /\ it[t].projectKey = "A"
        /\ it[t].deleted > 0 /\ it[t].storedBatches = 1 /\ it[t].requests = 2
        /\ IssuesOf("A") = it[t].resultKeys /\ it[t].resultKeys # {}

\* C32: once a sync has ended whose bucket was cleared by a later refresh
\* request after the sync had received its list, the bucket holds no record
\* of that list.
C32_NoRecordFromBeforeTheClear ==
    \A kind \in DOMAIN sync :
        (sync[kind].pc = "done" /\ sync[kind].clearedAt = "count") =>
            KeysOf(sync[kind].list) \cap DOMAIN SyncBucket(kind) = {}

\* C33: a clear-all request changes no running fetch, and every store
\* transaction of a fetch that commits leaves the keys of its page in issues,
\* whatever was cleared before it.
C33_FetchNeverCancelled ==
    [][/\ (http'.n # http.n /\ http'.endpoint = "data/clear-all") => it' = it /\ pt' = pt
       /\ \A t \in DOMAIN it :
            (it[t].pc = "loop" /\ it'[t].storedBatches = it[t].storedBatches + 1) =>
                /\ it'[t].resultKeys \subseteq it[t].resultKeys \cup DOMAIN issues'
                /\ it'[t].resultKeys # it[t].resultKeys]_vars
\* The last request served was a clear-all that committed between the two
\* pages of a fetch of A; the fetch has returned without error and issues
\* holds the items of its second page only.
C33_Witness ==
    /\ http.endpoint = "data/clear-all" /\ http.code = 200
    /\ \E t \in DOMAIN it :
          /\ Finished(t) /\ it[t].projectKey = "A" /\ it[t].storedBatches = 2
          /\ DOMAIN issues = {KeyOf("A", maxResults + 1)}
          /\ it[t].resultKeys = {KeyOf("A", i) : i \in 1..(maxResults + 1)}

\* C34: no response of the remote, whatever the shape of its records, ends
\* the process: no goroutine of a sync panics.
C34_ProcessSurvives == \A kind \in DOMAIN sync : sync[kind].pc # "panic"

CountIn(kind, rec) == IF kind = "jira" THEN rec.issueCount ELSE rec.pageCount
\* C35: while a count task of a sync is outstanding the sync writes no
\* record, and the step that stores the list is taken with every count task
\* finished and leaves under every listed key a record with the count the
\* task of an entry of that key wrote.
C35_StoreAfterAllCounts ==
    [][\A kind \in DOMAIN sync :
         /\ (sync[kind].pc = "count" /\ ~AllCounted(sync[kind].list)) =>
                /\ sync'[kind].pc # "done"
                /\ projects' = projects /\ spaces' = spaces
         /\ (sync[kind].pc = "count" /\ sync'[kind].pc = "done") =>
                \A i \in 1..Len(sync[kind].list) :
                    sync[kind].list[i].key # "" =>
                        /\ sync[kind].list[i].key \in DOMAIN SyncBucket(kind)'
                        /\ \E j \in 1..Len(sync[kind].list) :
                              /\ sync[kind].list[j].key = sync[kind].list[i].key
                              /\ sync[kind].list[j].counted
                              /\ CountIn(kind, SyncBucket(kind)'[sync[kind].list[i].key])
                                    = sync[kind].list[j].count]_vars
\* A sync stored two containers with the different counts their tasks wrote.
C35_Witness ==
    \E kind \in DOMAIN sync :
        /\ sync[kind].pc = "done" /\ Len(sync[kind].list) = 2
        /\ sync[kind].list[1].key = "A" /\ sync[kind].list[2].key = "B"
        /\ sync[kind].list[1].count # sync[kind].list[2].count
        /\ sync[kind].list[1].count > 0 /\ sync[kind].list[2].count > 0
        /\ DOMAIN SyncBucket(kind) = {"A", "B"}
        /\ CountIn(kind, SyncBucket(kind)["A"]) = sync[kind].list[1].count
        /\ CountIn(kind, SyncBucket(kind)["B"]) = sync[kind].list[2].count

\* C36: no step of GetProjectIssues, from its pre-step to its return with or
\* without error, changes the projects partition.
C36_IssueFetchLeavesProjects ==
    [][\A t \in DOMAIN it :
         (it[t].pc \in {"ready", "loop"} /\ it'[t] # it[t]) => projects' = projects]_vars
\* A sync stored a count for A and a fetch of A stored a different number of
\* issues and returned; the record of A carries the count of the sync.
C36_Witness ==
    \E t \in DOMAIN it :
        /\ Finished(t) /\ it[t].projectKey = "A" /\ it[t].storedBatches > 0
        /\ "A" \in DOMAIN projects
        /\ projects["A"].issueCount # Cardinality(IssuesOf("A"))
        /\ sync["jira"].pc = "done"
        /\ projects["A"].issueCount = sync["jira"].list[1].count

\* C37: a sync sends its list request only while the auth state is
\* authenticated.
C37_NoRequestWhileUnauthenticated ==
    [][\A kind \in DOMAIN sync :
         (sync[kind].pc = "list" /\ sync'[kind].pc \in {"count", "failed", "panic"}) =>
             IsAuthenticated(auth)]_vars

\* C38: a clear-all, of JiraScraper or of the Confluence service, changes
\* neither the auth state in memory nor the saved auth record nor the
\* existence of the auth bucket; and a POST to a refresh-cache endpoint that
\* is served next after a clear-all, with the service authenticated, is not
\* rejected: it is answered "started", or 500 when its own clear fails.
C38_ClearAllKeepsCredential ==
    [][/\ ((http'.n # http.n /\ http'.endpoint = "data/clear-all") \/ runs'.s # runs.s) =>
            /\ auth' = auth
            /\ ("auth" \in buckets') = ("auth" \in buckets)
       /\ (/\ http.endpoint = "data/clear-all" /\ http'.n # http.n
           /\ http'.endpoint \in {"projects/refresh-cache", "spaces/refresh-cache"}
           /\ http'.method = "POST" /\ IsAuthenticated(auth)) =>
            \/ http'.code = 200 /\ http'.status = "started"
            \/ http'.code = 500]_vars
\* An authenticated service with a saved auth record has just served a
\* clear-all that emptied the store, and can serve a further request.
C38_Witness ==
    /\ http.endpoint = "data/clear-all" /\ http.code = 200 /\ http.n < MaxRequests
    /\ IsAuthenticated(auth) /\ auth.saved # <<>>
    /\ "auth" \in buckets
    /\ DOMAIN projects = {} /\ DOMAIN spaces = {}

\* C39: when the result of the slot at offset start + i * limit is processed,
\* every lower offset of the fetch has returned a full page without error
\* (the pages received so far number exactly that offset); a slot that
\* failed, was empty or short ends the processing, so no result behind it is
\* stored; and a step that ends in an error stores nothing.
C39_StoredPagesArePrefix ==
    [][\A t \in DOMAIN pt :
         (pt[t].pc = "slots" /\ pt'[t] # pt[t]) =>
             /\ pt[t].totalPages = pt[t].start + pt[t].i * limit
             /\ pt'[t].totalPages - pt[t].totalPages < limit =>
                    pt'[t].pc \in {"post", "failed"}
             /\ pt'[t].pc = "failed" => pages' = pages
             /\ pages' # pages => pt'[t].totalPages > pt[t].totalPages]_vars
\* A fetch stored the two full pages of its first round and the short page of
\* the first slot of its second round; the result of the second slot of
\* that round was discarded.
C39_Witness ==
    \E t \in DOMAIN pt :
        /\ PageFinished(t) /\ pt[t].rounds = 2
        /\ pt[t].requests = pt[t].processed + batchSize - 1
        /\ pt[t].totalPages > batchSize * limit
        /\ pt[t].totalPages < (batchSize + 1) * limit

RemoteSet(K) == {KeyOf(K, i) : i \in 1..remote.size[K]}
\* C40 as stated: when two fetches of the same key, started by one request,
\* have both returned without error, the stored issues of the key are the
\* items the remote holds for it.
C40_TwinFetchComplete ==
    \A t \in DOMAIN it : \A u \in DOMAIN it \ {t} :
        (Finished(t) /\ Finished(u) /\ it[t].projectKey = it[u].projectKey) =>
            IssuesOf(it[t].projectKey) = RemoteSet(it[t].projectKey)
\* C40 amended: the same, for two fetches of which neither was ended by the
\* iteration cap.
C40_TwinFetchCompleteBelowCap ==
    \A t \in DOMAIN it : \A u \in DOMAIN it \ {t} :
        (/\ Finished(t) /\ Finished(u) /\ it[t].projectKey = it[u].projectKey
         /\ it[t].lastStop # "maxIterations" /\ it[u].lastStop # "maxIterations") =>
            IssuesOf(it[t].projectKey) = RemoteSet(it[t].projectKey)
\* Two fetches of A ran side by side over more than one page each; the
\* second deleted issues the first had stored, and all items of A are stored.
C40_Witness ==
    \E t \in DOMAIN it : \E u \in DOMAIN it \ {t} :
        /\ Finished(t) /\ Finished(u)
        /\ it[t].projectKey = "A" /\ it[u].projectKey = "A"
        /\ it[t].storedBatches > 1 /\ it[u].storedBatches > 1
        /\ it[u].deleted > 1
        /\ it[t].lastStop # "maxIterations" /\ it[u].lastStop # "maxIterations"
        /\ IssuesOf("A") = RemoteSet("A")

====
